---------------------------- MODULE Spec2Model ----------------------------
(***************************************************************************)
(* A model of ml-guard's drift engine, alert service and worker.           *)
(*                                                                         *)
(* The database is five tables, each a sequence of rows in insertion       *)
(* order (a sequence can hold two rows with the same key, so uniqueness is *)
(* something the unique constraints have to enforce).  A SQLAlchemy        *)
(* Session is a record: the rows added and not yet flushed (new) and       *)
(* whether its transaction is usable (active) or was rolled back by a      *)
(* failed flush and awaits Session.rollback() (deactive).                  *)
(*                                                                         *)
(* Numbers: a feature value x is held as the integer x * Unit; a           *)
(* probability p as the integer floor(p * Ppm) (parts per million); a PSI  *)
(* score as an integer number of millionths.                               *)
(***************************************************************************)
EXTENDS Integers, Sequences, FiniteSets, TLC

VARIABLES
    events,         \* table events: runs of identical Event rows
    baselines,      \* table feature_baselines
    daily_metrics,  \* table daily_metrics
    daily_drift,    \* table daily_drift
    alerts,         \* table alerts
    sess,           \* process -> its Session
    pc,             \* process -> where it is in its handler
    local,          \* process -> the handler's arguments and local variables
    ret,            \* process -> what its last call returned
    log             \* the worker's log lines, in order

vars == <<events, baselines, daily_metrics, daily_drift, alerts, sess, pc, local, ret, log>>

tables == <<events, baselines, daily_metrics, daily_drift, alerts>>

-----------------------------------------------------------------------------
(* Bounds of the model *)

\* concurrent request handlers
MaxHandlers == 3

\* runs of events ingested after the baseline period
MaxRuns == 2

\* largest min_samples a request asks for
MaxMinSamples == 2

\* requests made to the drift handlers in one behaviour
MaxCalls == 2

\* the longest list of events one ingest request carries
MaxBatch == 2

\* the longest sample (in runs of equal values) given to _hist_probs and
\* _freq_probs
MaxLen == 3

-----------------------------------------------------------------------------
(* Keys, days, generic helpers *)

K1 == [project_id |-> "p1", model_id |-> "m1", endpoint |-> "predict"]

K2 == [project_id |-> "p1", model_id |-> "m2", endpoint |-> "predict"]

Keys == {K1, K2}

Handlers == 1..MaxHandlers

\* Optional[T] is a sequence of length at most one; None is the empty one.
None == <<>>

Some(x) == <<x>>

Range(s) == {s[i] : i \in DOMAIN s}

RECURSIVE SeqSum(_)
SeqSum(s) ==
    IF s = <<>> THEN 0 ELSE Head(s) + SeqSum(Tail(s))

-----------------------------------------------------------------------------
(* JSON scalars of Event.features, and lists of them                       *)
(*                                                                         *)
(* A value is a record of one shape whatever its type.  A list of values   *)
(* is a sequence of runs [v, n]: the value v, n times in a row.            *)

\* the integer that stands for the number 1.0 (divisible by every n_bins used)
Unit == 2 * 30

\* the integer that stands for the probability 1.0
Ppm == 1000 * 1000

IntV(x) == [t |-> "int", num |-> x, str |-> ""]

FloatV(x) == [t |-> "float", num |-> x, str |-> ""]

BoolV(b) == [t |-> "bool", num |-> IF b THEN Unit ELSE 0, str |-> ""]

StrV(c) == [t |-> "str", num |-> 0, str |-> c]

NullV == [t |-> "null", num |-> 0, str |-> ""]

\* isinstance(x, (int, float)): bool is a subclass of int
isinstance_int_float(x) == x.t \in {"int", "float", "bool"}

isinstance_bool(x) == x.t = "bool"

\* _is_number without the bool exclusion
_is_number_bool_too(x) == isinstance_int_float(x)

\* drift.py _is_number
_is_number(x) == isinstance_int_float(x) /\ ~isinstance_bool(x)

\* drift.py _is_categorical
_is_categorical(x) == x.t = "str"

Run(v, n) == [v |-> v, n |-> n]

\* len() of a list held as runs
RECURSIVE RunLen(_)
RunLen(runs) ==
    IF runs = <<>> THEN 0 ELSE Head(runs).n + RunLen(Tail(runs))

\* (e.features or {}).get(feature)
features_get(feats, feature) ==
    IF feature \in DOMAIN feats THEN feats[feature] ELSE NullV

Min(S) == CHOOSE x \in S : \A y \in S : x <= y

Max(S) == CHOOSE x \in S : \A y \in S : x >= y

-----------------------------------------------------------------------------
(* drift.py: binning, probabilities, PSI, severity *)

\* drift.py _make_bins (values non-empty): n_bins + 1 edges from min to max
_make_bins(values, n_bins) ==
    LET xs == {values[i].v : i \in DOMAIN values}
        lo == Min(xs)
        hi == Max(xs)
        vmin == IF lo = hi THEN lo - Unit \div 2 ELSE lo
        vmax == IF lo = hi THEN hi + Unit \div 2 ELSE hi
        width == (vmax - vmin) \div n_bins
    IN  [i \in 1..n_bins |-> vmin + (i - 1) * width] \o <<vmax>>

\* counts / total as parts per million; the zero vector when total is 0
Probs(counts, total) ==
    [i \in DOMAIN counts |-> IF total = 0 THEN 0 ELSE (counts[i] * Ppm) \div total]

\* drift.py _hist_probs 64-76: the bins that accept x (1-based)
AcceptingBins(x, bin_edges) ==
    LET n_bins == Len(bin_edges) - 1
    IN  {i \in 1..n_bins :
            IF i = n_bins
            THEN bin_edges[i] <= x /\ x <= bin_edges[i + 1]
            ELSE bin_edges[i] <= x /\ x < bin_edges[i + 1]}

\* _hist_probs that drops the values no bin accepts
BinOfDropping(x, bin_edges) ==
    LET acc == AcceptingBins(x, bin_edges)
    IN  IF acc # {} THEN Min(acc) ELSE 0

\* drift.py _hist_probs 62-81: the first accepting bin, else the nearest edge bin
BinOf(x, bin_edges) ==
    LET acc == AcceptingBins(x, bin_edges)
    IN  IF acc # {} THEN Min(acc)
        ELSE IF x < bin_edges[1] THEN 1 ELSE Len(bin_edges) - 1

\* drift.py _hist_probs 60-81: the count of each bin
HistCounts(values, bin_edges) ==
    [i \in 1..(Len(bin_edges) - 1) |->
        RunLen(SelectSeq(values, LAMBDA r : BinOf(r.v, bin_edges) = i))]

\* drift.py _hist_probs
_hist_probs(values, bin_edges) ==
    LET counts == HistCounts(values, bin_edges)
    IN  Probs(counts, SeqSum(counts))

OtherCat == "__OTHER__"

InSeq(x, s) == \E i \in DOMAIN s : s[i] = x

\* drift.py _freq_probs 94-96
FreqCats(categories, other_bucket) ==
    IF other_bucket /\ ~InSeq(OtherCat, categories)
    THEN Append(categories, OtherCat) ELSE categories

\* counts that leave out the values outside the category list
FreqCountListed(values, cats, c) ==
    RunLen(SelectSeq(values, LAMBDA r : r.v = c))

\* drift.py _freq_probs 98-104: counts is a dict keyed by category
FreqCount(values, cats, c) ==
    RunLen(SelectSeq(values, LAMBDA r :
        IF InSeq(r.v, cats) THEN r.v = c ELSE InSeq(OtherCat, cats) /\ c = OtherCat))

\* the keys of the dict {c: 0 for c in cats}, in insertion order
RECURSIVE DictKeys(_)
DictKeys(cats) ==
    IF cats = <<>> THEN <<>>
    ELSE LET front == DictKeys(SubSeq(cats, 1, Len(cats) - 1))
             last == cats[Len(cats)]
         IN  IF InSeq(last, front) THEN front ELSE Append(front, last)

\* drift.py _freq_probs: (cats, probs)
_freq_probs(values, categories, other_bucket) ==
    LET cats == FreqCats(categories, other_bucket)
        cnt(c) == FreqCount(values, cats, c)
        keys == DictKeys(cats)
        total == SeqSum([i \in DOMAIN keys |-> cnt(keys[i])])
    IN  [cats |-> cats,
         probs |-> Probs([i \in DOMAIN cats |-> cnt(cats[i])], total)]

\* floor(log2(n)) for n >= 1
RECURSIVE FloorLog2(_)
FloorLog2(n) == IF n < 2 THEN 0 ELSE 1 + FloorLog2(n \div 2)

Pow2(k) == 2 ^ k

\* fixed-point scale of the mantissa and number of fraction bits of log2
MantBits == 7 + 7

FracBits == 6 + 6

\* the fraction bits of log2 of the mantissa y (scaled by 2^MantBits, in
\* [1, 2)), by repeated squaring
RECURSIVE Log2Frac(_, _)
Log2Frac(y, bits) ==
    IF bits = 0 THEN 0
    ELSE LET y2 == (y * y) \div Pow2(MantBits)
         IN  IF y2 >= Pow2(MantBits + 1)
             THEN Pow2(bits - 1) + Log2Frac(y2 \div 2, bits - 1)
             ELSE Log2Frac(y2, bits - 1)

\* 1000 * math.log(n) for an integer n >= 1, rounded down (fixed point)
LnMilli(n) ==
    LET k == FloorLog2(n)
        y == IF k >= MantBits THEN n \div Pow2(k - MantBits)
             ELSE n * Pow2(MantBits - k)
        lg == k * Pow2(FracBits) + Log2Frac(y, FracBits)
    IN  (lg * 6931) \div (10 * Pow2(FracBits))

\* eps = 1e-6 of psi, in parts per million
eps == 1

\* the term a2 * log(a2 / e2) of a relative entropy, in millionths
PsiTermEntropy(e, a) ==
    LET e2 == IF e > eps THEN e ELSE eps
        a2 == IF a > eps THEN a ELSE eps
        l == LnMilli(a2) - LnMilli(e2)
    IN  (a2 \div 1000) * l + ((a2 % 1000) * l) \div 1000

\* one term (a2 - e2) * log(a2 / e2) of psi, in millionths
PsiTerm(e, a) ==
    LET e2 == IF e > eps THEN e ELSE eps
        a2 == IF a > eps THEN a ELSE eps
        d == a2 - e2
        l == LnMilli(a2) - LnMilli(e2)
    IN  (d \div 1000) * l + ((d % 1000) * l) \div 1000

\* drift.py psi 117-118
psi_raises(expected, actual) == Len(expected) # Len(actual)

\* drift.py psi 121-126, in millionths
psi(expected, actual) ==
    SeqSum([i \in DOMAIN expected |-> PsiTerm(expected[i], actual[i])])

\* classify_severity with the ladder read as <= instead of <
classify_severity_le(psi_value) ==
    IF psi_value <= 100000 THEN "OK"
    ELSE IF psi_value <= 250000 THEN "WARN"
    ELSE "ALERT"

\* drift.py classify_severity: 0.10 and 0.25 in millionths
classify_severity(psi_value) ==
    IF psi_value < 100000 THEN "OK"
    ELSE IF psi_value < 250000 THEN "WARN"
    ELSE "ALERT"

-----------------------------------------------------------------------------
(* Time: instants are whole hours UTC, days are day numbers; day windows *)

TZs == {"UTC", "America/Vancouver"}

HoursPerDay == 24

\* the local wall-clock hour at which America/Vancouver moves its clocks
\* forward by one hour (02:00 on day 2)
DstStartWall == 2 * HoursPerDay + 2

\* ZoneInfo(tz).utcoffset of a local wall-clock hour
utcoffset(tz, wall) ==
    IF tz = "UTC" THEN 0
    ELSE IF wall < DstStartWall THEN 0 - 8 ELSE 0 - 7

\* a day window of exactly 24 hours
_day_range_utc_24h(day, tz) ==
    LET start_local == day * HoursPerDay
        start == start_local - utcoffset(tz, start_local)
    IN  <<start, start + HoursPerDay>>

\* drift.py _day_range_utc (and metrics.py _day_range): local midnight of
\* day and the local midnight one calendar day later, both as UTC instants
_day_range_utc(day, tz) ==
    LET start_local == day * HoursPerDay
        end_local == start_local + HoursPerDay
    IN  <<start_local - utcoffset(tz, start_local), end_local - utcoffset(tz, end_local)>>

-----------------------------------------------------------------------------
(* models.py: Event, FeatureBaseline, DailyDrift rows *)

\* a run of n identical Event rows
Event(key, timestamp, features, n) ==
    [project_id |-> key.project_id, model_id |-> key.model_id, endpoint |-> key.endpoint,
     timestamp |-> timestamp, features |-> features, n |-> n]

key_of(r) == [project_id |-> r.project_id, model_id |-> r.model_id, endpoint |-> r.endpoint]

\* select(Event).where(key).where(timestamp >= start).where(timestamp < end)
EventsIn(tbl, key, start, end) ==
    SelectSeq(tbl, LAMBDA e : key_of(e) = key /\ e.timestamp >= start /\ e.timestamp < end)

\* the rows of a table with the key
OfKey(tbl, key) == SelectSeq(tbl, LAMBDA e : key_of(e) = key)

\* the values of one feature over a list of events, one run per run of events
FeatureValues(evts, feature) ==
    [i \in DOMAIN evts |-> Run(features_get(evts[i].features, feature), evts[i].n)]

\* [v for v in values if _is_number(v)]
NumberValues(evts, feature) ==
    SelectSeq(FeatureValues(evts, feature), LAMBDA r : _is_number(r.v))

\* [v for v in values if _is_categorical(v)]
CategoricalValues(evts, feature) ==
    SelectSeq(FeatureValues(evts, feature), LAMBDA r : _is_categorical(r.v))

\* [float(v) ...]: the numbers themselves
NumsOf(vals) == [i \in DOMAIN vals |-> Run(vals[i].v.num, vals[i].n)]

\* the strings themselves
StrsOf(vals) == [i \in DOMAIN vals |-> Run(vals[i].v.str, vals[i].n)]

NumericDef(bin_edges) ==
    [type |-> "numeric", bin_edges |-> bin_edges, categories |-> <<>>, other_bucket |-> TRUE]

\* the categorical definition that stores the top categories only, the
\* "__OTHER__" bucket being implied
CategoricalDefTop(categories, other_bucket) ==
    [type |-> "categorical", bin_edges |-> <<>>,
     categories |-> SelectSeq(categories, LAMBDA c : c # "__OTHER__"),
     other_bucket |-> other_bucket]

CategoricalDef(categories, other_bucket) ==
    [type |-> "categorical", bin_edges |-> <<>>, categories |-> categories,
     other_bucket |-> other_bucket]

FeatureBaseline(key, feature, feature_type, n_baseline, baseline_edges, baseline_probs) ==
    [project_id |-> key.project_id, model_id |-> key.model_id, endpoint |-> key.endpoint,
     feature |-> feature, feature_type |-> feature_type, n_baseline |-> n_baseline,
     baseline_edges |-> baseline_edges, baseline_probs |-> baseline_probs]

baseline_key(r) == <<r.project_id, r.model_id, r.endpoint, r.feature>>

\* UniqueConstraint uq_feature_baseline: TRUE when inserting r would violate it
uq_feature_baseline(rows, r) ==
    \E i \in DOMAIN rows : baseline_key(rows[i]) = baseline_key(r)

\* drift.py _normalize_baseline for the tagged formats capture_baseline writes
_normalize_baseline(baseline_edges_json, baseline_probs) ==
    [type |-> baseline_edges_json.type,
     bin_edges |-> baseline_edges_json.bin_edges,
     categories |-> baseline_edges_json.categories,
     other_bucket |-> baseline_edges_json.other_bucket,
     baseline_probs |-> baseline_probs]

DailyDrift(key, day, psi_map) ==
    [project_id |-> key.project_id, model_id |-> key.model_id, endpoint |-> key.endpoint,
     day |-> day, psi |-> psi_map, max_psi_feature |-> None, max_psi |-> None]

drift_key(r) == <<r.project_id, r.model_id, r.endpoint, r.day>>

\* UniqueConstraint uq_daily_drift: TRUE when inserting r would violate it
uq_daily_drift(rows, r) ==
    \E i \in DOMAIN rows : drift_key(rows[i]) = drift_key(r)

-----------------------------------------------------------------------------
(* Session *)

SessionLocal == [new |-> <<>>, state |-> "active"]

\* db.add(row)
Session_add(s, row) == [s EXCEPT !.new = Append(@, row)]

\* db.rollback(): pending rows are expunged, a new transaction can begin
Session_rollback(s) == [new |-> <<>>, state |-> "active"]

\* the Session after a flush inside commit() raised: the transaction is
\* rolled back in the database and the Session refuses work until
\* rollback() is called
Session_flush_failed(s) == [new |-> <<>>, state |-> "deactive"]

\* the Session after a successful commit()
Session_committed(s) == [new |-> <<>>, state |-> "active"]

-----------------------------------------------------------------------------
(* Exceptions and their messages                                           *)
(*                                                                         *)
(* A message is the sequence of its pieces: the literal parts of the       *)
(* f-string and the names interpolated into it.  What a service call       *)
(* returns is a record; exc = "" when it returned normally.                *)

NoExc == ""

ValueError == "ValueError"

IntegrityError == "IntegrityError"

PendingRollbackError == "PendingRollbackError"

\* the feature names of the model, in sorted() order
FeatureOrder == <<"f", "g", "h">>

Features == Range(FeatureOrder)

\* sorted(S) for a set of feature names
Sorted(S) == SelectSeq(FeatureOrder, LAMBDA x : x \in S)

\* (pattern, piece) pairs with pattern a substring of piece, over the
\* patterns of worker.py 188-204 and the message pieces of drift.py
SubstringPairs ==
    {<<"No baselines found", "No baselines found. Capture at least one baseline first.">>,
     <<"No events found", "No events found for ">>,
     <<"Not enough", "Not enough numeric samples for '">>,
     <<"Not enough", "Not enough categorical samples for '">>}

\* pattern in msg
Contains(pattern, msg) ==
    \E i \in DOMAIN msg : <<pattern, msg[i]>> \in SubstringPairs

-----------------------------------------------------------------------------
(* services/drift.py: compute_daily_drift, compute_daily_drift_all *)

EmptyMap == <<>>

\* dict(m); m[k] = v
MapSet(m, k, v) == [x \in DOMAIN m \cup {k} |-> IF x = k THEN v ELSE m[x]]

\* dict(m); m.update(u)
MapUpdate(m, u) == [x \in DOMAIN m \cup DOMAIN u |-> IF x \in DOMAIN u THEN u[x] ELSE m[x]]

PsiEntry(score, n, type, categories) ==
    [psi |-> score, n |-> n, type |-> type, severity |-> classify_severity(score),
     categories |-> categories]

\* db.scalars(select(FeatureBaseline).where(key).where(feature)).first()
BaselineFor(tbl, key, feature) ==
    LET found == SelectSeq(tbl, LAMBDA b : key_of(b) = key /\ b.feature = feature)
    IN  IF found = <<>> THEN None ELSE Some(Head(found))

\* the position of the DailyDrift row of (key, day), 0 when there is none
DriftRowIndex(tbl, key, day) ==
    LET found == {i \in DOMAIN tbl : key_of(tbl[i]) = key /\ tbl[i].day = day}
    IN  IF found = {} THEN 0 ELSE Min(found)

\* drift.py 352-366: the numeric payload from the day's numeric values and
\* their histogram, or the exception raised
numeric_payload(base, feature, min_samples, n, actual_probs) ==
    IF n < min_samples
    THEN [exc |-> ValueError, msg |-> <<"Not enough numeric samples for '", feature, "' on ">>,
          payload |-> None]
    ELSE IF psi_raises(base.baseline_probs, actual_probs)
    THEN [exc |-> ValueError, msg |-> <<"expected and actual must have the same length">>,
          payload |-> None]
    ELSE [exc |-> NoExc, msg |-> <<>>,
          payload |-> Some(PsiEntry(psi(base.baseline_probs, actual_probs), n, "numeric",
                                    None))]

\* drift.py 367-380: the categorical payload from the day's strings and
\* their frequencies fp, or the exception raised
categorical_payload(base, feature, min_samples, n, fp) ==
    IF n < min_samples
    THEN [exc |-> ValueError,
          msg |-> <<"Not enough categorical samples for '", feature, "' on ">>,
          payload |-> None]
    ELSE IF psi_raises(base.baseline_probs, fp.probs)
    THEN [exc |-> ValueError, msg |-> <<"expected and actual must have the same length">>,
          payload |-> None]
    ELSE [exc |-> NoExc, msg |-> <<>>,
          payload |-> Some(PsiEntry(psi(base.baseline_probs, fp.probs), n, "categorical",
                                    Some(fp.cats)))]

\* drift.py 349-380: the payload of one feature, or the exception raised
drift_payload(base, evts, feature, min_samples) ==
    IF base.type = "numeric"
    THEN numeric_payload(base, feature, min_samples,
                         RunLen(NumberValues(evts, feature)),
                         _hist_probs(NumsOf(NumberValues(evts, feature)), base.bin_edges))
    ELSE categorical_payload(base, feature, min_samples,
                             RunLen(CategoricalValues(evts, feature)),
                             _freq_probs(StrsOf(CategoricalValues(evts, feature)),
                                         base.categories, base.other_bucket))

\* a failed service call that has deleted the DailyDrift rows on its way
RaiseAfterDelete(db, s, exc, msg) ==
    [exc |-> exc, msg |-> msg, sess |-> s, daily_drift |-> <<>>, out |-> None]

\* what a failed service call returns: nothing written, the Session as it is
Raise(db, s, exc, msg) ==
    [exc |-> exc, msg |-> msg, sess |-> s, daily_drift |-> db.daily_drift, out |-> None]

\* the psi map of the stored DailyDrift row of (key, day), {} when none
StoredPsi(tbl, key, day) ==
    IF DriftRowIndex(tbl, key, day) = 0 THEN EmptyMap
    ELSE tbl[DriftRowIndex(tbl, key, day)].psi

\* drift.py 382-404 and 515-534: the load-or-create upsert of the DailyDrift
\* row of (key, day), then commit: a new row gets the map on_insert, an
\* existing row the map on_update
drift_upsert(db, s, key, day, on_insert, on_update) ==
    LET i == DriftRowIndex(db.daily_drift, key, day)
        row == DailyDrift(key, day, on_insert)
    IN  IF i = 0
        THEN IF uq_daily_drift(db.daily_drift, row)
             THEN [exc |-> IntegrityError, sess |-> Session_flush_failed(s),
                   daily_drift |-> db.daily_drift]
             ELSE [exc |-> NoExc, sess |-> Session_committed(s),
                   daily_drift |-> Append(db.daily_drift, row)]
        ELSE [exc |-> NoExc, sess |-> Session_committed(s),
              daily_drift |-> [db.daily_drift EXCEPT ![i].psi = on_update]]

\* drift.py 382-414: compute_daily_drift from the upsert on, up being what
\* the upsert did
drift_return(feature, payload, up) ==
    IF up.exc # NoExc
    THEN [exc |-> up.exc, msg |-> <<>>, sess |-> up.sess, daily_drift |-> up.daily_drift,
          out |-> None]
    ELSE [exc |-> NoExc, msg |-> <<>>, sess |-> up.sess, daily_drift |-> up.daily_drift,
          out |-> Some([feature |-> feature, payload |-> payload])]

\* drift.py 347-414: compute_daily_drift once the baseline is loaded, p being
\* the payload or the exception of lines 349-380
drift_store(db, s, key, day, feature, p) ==
    IF p.exc # NoExc THEN Raise(db, s, p.exc, p.msg)
    ELSE drift_return(feature, p.payload[1],
             drift_upsert(db, s, key, day, MapSet(EmptyMap, feature, p.payload[1]),
                          MapSet(StoredPsi(db.daily_drift, key, day), feature, p.payload[1])))

\* drift.py 336-347: the baseline lookup of compute_daily_drift, baseline
\* being the row found (or None) and evts the day's events
drift_one(db, s, key, day, feature, min_samples, baseline, evts) ==
    IF baseline = None
    THEN Raise(db, s, ValueError,
               <<"No baseline found for feature '", feature, "'. Capture one first.">>)
    ELSE drift_store(db, s, key, day, feature,
             drift_payload(_normalize_baseline(baseline[1].baseline_edges,
                                               baseline[1].baseline_probs),
                           evts, feature, min_samples))

\* drift.py compute_daily_drift
compute_daily_drift(db, s, key, day, feature, tz, min_samples) ==
    IF s.state # "active" THEN Raise(db, s, PendingRollbackError, <<>>)
    ELSE drift_one(db, s, key, day, feature, min_samples,
                   BaselineFor(db.baselines, key, feature),
                   EventsIn(db.events, key, _day_range_utc(day, tz)[1],
                            _day_range_utc(day, tz)[2]))

\* the features carried by the first event the store returns
seen_features_first(evts) == DOMAIN evts[1].features

\* drift.py 459-466: the features some event of the list carries
seen_features(evts) == UNION {DOMAIN evts[i].features : i \in DOMAIN evts}

\* drift.py 472: the loop runs over the features seen in the day's events
loop_features(evts, baseline_map) == Sorted(seen_features(evts))

\* a numeric feature of the loop, computed only above min_samples
numeric_result_above(base, min_samples, n, actual_probs) ==
    IF n <= min_samples THEN [skip |-> TRUE, n |-> n, exc |-> NoExc, result |-> None]
    ELSE IF psi_raises(base.baseline_probs, actual_probs)
    THEN [skip |-> FALSE, n |-> n, exc |-> ValueError, result |-> None]
    ELSE [skip |-> FALSE, n |-> n, exc |-> NoExc,
          result |-> Some(PsiEntry(psi(base.baseline_probs, actual_probs), n, "numeric",
                                   None))]

\* drift.py 485-494: a numeric feature of the loop: skipped for low samples
\* (skip, n), computed (result), or psi raising
numeric_result(base, min_samples, n, actual_probs) ==
    IF n < min_samples THEN [skip |-> TRUE, n |-> n, exc |-> NoExc, result |-> None]
    ELSE IF psi_raises(base.baseline_probs, actual_probs)
    THEN [skip |-> FALSE, n |-> n, exc |-> ValueError, result |-> None]
    ELSE [skip |-> FALSE, n |-> n, exc |-> NoExc,
          result |-> Some(PsiEntry(psi(base.baseline_probs, actual_probs), n, "numeric",
                                   None))]

\* drift.py 495-508: a categorical feature of the loop
categorical_result(base, min_samples, n, fp) ==
    IF n < min_samples THEN [skip |-> TRUE, n |-> n, exc |-> NoExc, result |-> None]
    ELSE IF psi_raises(base.baseline_probs, fp.probs)
    THEN [skip |-> FALSE, n |-> n, exc |-> ValueError, result |-> None]
    ELSE [skip |-> FALSE, n |-> n, exc |-> NoExc,
          result |-> Some(PsiEntry(psi(base.baseline_probs, fp.probs), n, "categorical",
                                   Some(fp.cats)))]

\* drift.py 478-508: one baselined feature of the loop
drift_result(base, evts, feature, min_samples) ==
    IF base.type = "numeric"
    THEN numeric_result(base, min_samples, RunLen(NumberValues(evts, feature)),
                        _hist_probs(NumsOf(NumberValues(evts, feature)), base.bin_edges))
    ELSE categorical_result(base, min_samples, RunLen(CategoricalValues(evts, feature)),
                            _freq_probs(StrsOf(CategoricalValues(evts, feature)),
                                        base.categories, base.other_bucket))

\* the first key of results, in insertion (sorted) order, with the largest psi
MaxPsiFeature(results) ==
    LET top == Max({results[f].psi : f \in DOMAIN results})
    IN  Head(SelectSeq(Sorted(DOMAIN results), LAMBDA f : results[f].psi = top))

\* the upsert always replacing the stored map
drift_all_store_replace(old, results, overwrite) == results

\* drift.py 528-533: the psi map stored in an existing row
drift_all_store(old, results, overwrite) ==
    IF overwrite THEN results ELSE MapUpdate(old, results)

\* drift.py 446-456: baseline_map[b.feature] = b, a later row replacing an
\* earlier one of the same feature
baseline_map_of(bl) ==
    [f \in {bl[i].feature : i \in DOMAIN bl} |->
        bl[Max({i \in DOMAIN bl : bl[i].feature = f})]]

\* drift.py 536-553: what compute_daily_drift_all returns
drift_all_out(results, missing_baseline, skipped_low_sample, min_samples, max_feat) ==
    [psi |-> results,
     missing_baseline |-> missing_baseline,
     skipped_low_sample |-> skipped_low_sample,
     min_samples |-> min_samples,
     max_psi_feature |-> max_feat,
     max_psi |-> results[max_feat].psi,
     max_severity |-> classify_severity(results[max_feat].psi)]

\* drift.py 515-553: the upsert done (up), the result is returned
drift_all_return(out, up) ==
    IF up.exc # NoExc
    THEN [exc |-> up.exc, msg |-> <<>>, sess |-> up.sess, daily_drift |-> up.daily_drift,
          out |-> None]
    ELSE [exc |-> NoExc, msg |-> <<>>, sess |-> up.sess, daily_drift |-> up.daily_drift,
          out |-> Some(out)]

\* drift.py 472-553: compute_daily_drift_all after its loop, rs being what
\* the loop found for each baselined feature it visited
drift_all_finish(db, s, key, day, min_samples, overwrite, missing_baseline, rs, results) ==
    IF \E f \in DOMAIN rs : rs[f].exc # NoExc
    THEN Raise(db, s, ValueError, <<"expected and actual must have the same length">>)
    ELSE IF DOMAIN results = {}
    THEN Raise(db, s, ValueError,
               <<"No drift computed. missing_baseline=">> \o missing_baseline
               \o <<" skipped_low_sample=">> \o Sorted({f \in DOMAIN rs : rs[f].skip}))
    ELSE drift_all_return(
             drift_all_out(results, missing_baseline,
                           [f \in {g \in DOMAIN rs : rs[g].skip} |-> rs[f].n],
                           min_samples, MaxPsiFeature(results)),
             drift_upsert(db, s, key, day, results,
                          drift_all_store(StoredPsi(db.daily_drift, key, day), results,
                                          overwrite)))

\* drift.py 468-508: the loop of compute_daily_drift_all over the features
\* loop
drift_all_loop(db, s, key, day, min_samples, overwrite, baseline_map, evts, loop, rs) ==
    drift_all_finish(db, s, key, day, min_samples, overwrite,
                     SelectSeq(loop, LAMBDA f : f \notin DOMAIN baseline_map), rs,
                     [f \in {g \in DOMAIN rs : ~rs[g].skip /\ rs[g].exc = NoExc} |->
                         rs[f].result[1]])

\* drift.py 440-472: compute_daily_drift_all once baselines and events are
\* loaded
drift_all(db, s, key, day, min_samples, overwrite, baseline_map, evts) ==
    IF DOMAIN baseline_map = {}
    THEN Raise(db, s, ValueError,
               <<"No baselines found. Capture at least one baseline first.">>)
    ELSE IF evts = <<>>
    THEN Raise(db, s, ValueError, <<"No events found for ", " on ">>)
    ELSE drift_all_loop(db, s, key, day, min_samples, overwrite, baseline_map, evts,
             loop_features(evts, baseline_map),
             [f \in Range(loop_features(evts, baseline_map)) \cap DOMAIN baseline_map |->
                 drift_result(_normalize_baseline(baseline_map[f].baseline_edges,
                                                  baseline_map[f].baseline_probs),
                              evts, f, min_samples)])

\* drift.py compute_daily_drift_all
compute_daily_drift_all(db, s, key, day, tz, min_samples, overwrite) ==
    IF s.state # "active" THEN Raise(db, s, PendingRollbackError, <<>>)
    ELSE drift_all(db, s, key, day, min_samples, overwrite,
                   baseline_map_of(OfKey(db.baselines, key)),
                   EventsIn(db.events, key, _day_range_utc(day, tz)[1],
                            _day_range_utc(day, tz)[2]))

-----------------------------------------------------------------------------
(* services/drift.py: capture_baseline *)

\* an ISO8601 string: the wall-clock hour it names and, when it carries one,
\* its UTC offset in hours ("Z" is offset 0)
Iso(wall, off) == [wall |-> wall, off |-> off]

\* drift.py _parse_iso_dt, then astimezone(utc): a naive time is UTC
_parse_iso_dt(iso) == IF iso.off = None THEN iso.wall ELSE iso.wall - iso.off[1]

\* ORDER BY timestamp ASC (DESC when desc): rows of equal timestamp stay in
\* table order
RECURSIVE OrderBy(_, _)
OrderBy(rows, desc) ==
    IF rows = <<>> THEN <<>>
    ELSE LET first(j) == \A k \in DOMAIN rows :
                            IF desc THEN rows[k].timestamp <= rows[j].timestamp
                            ELSE rows[k].timestamp >= rows[j].timestamp
             i == Min({j \in DOMAIN rows : first(j)})
         IN  <<rows[i]>> \o OrderBy(SubSeq(rows, 1, i - 1) \o SubSeq(rows, i + 1, Len(rows)),
                                   desc)

\* LIMIT n over runs of rows
RECURSIVE Limit(_, _)
Limit(rows, n) ==
    IF rows = <<>> \/ n <= 0 THEN <<>>
    ELSE IF Head(rows).n <= n THEN <<Head(rows)>> \o Limit(Tail(rows), n - Head(rows).n)
    ELSE <<[Head(rows) EXCEPT !.n = n]>>

\* the arguments that select the window of capture_baseline
Window(start_ts, end_ts, start_day, end_day, n) ==
    [start_ts |-> start_ts, end_ts |-> end_ts, start_day |-> start_day,
     end_day |-> end_day, n |-> n]

\* drift.py 222-224: one of start_ts, end_ts given without the other
window_raises(w) ==
    (w.start_ts # None \/ w.end_ts # None) /\ ~(w.start_ts # None /\ w.end_ts # None)

\* drift.py 215-235: the events of the capture window
window_events(tbl, key, w, tz) ==
    IF w.start_ts # None \/ w.end_ts # None
    THEN OrderBy(EventsIn(tbl, key, _parse_iso_dt(w.start_ts[1]), _parse_iso_dt(w.end_ts[1])),
                 FALSE)
    ELSE IF w.start_day # None /\ w.end_day # None
    THEN OrderBy(EventsIn(tbl, key, _day_range_utc(w.start_day[1], tz)[1],
                          _day_range_utc(w.end_day[1], tz)[1]),
                 FALSE)
    ELSE Limit(OrderBy(OfKey(tbl, key), TRUE), w.n)

\* counts[v] of drift.py 260-262
CountOf(vals, v) == RunLen(SelectSeq(vals, LAMBDA r : r.v = v))

\* sorted(counts.items(), key=lambda kv: kv[1], reverse=True): stable, so
\* equal counts keep the order of first appearance
RECURSIVE SortedByCount(_, _)
SortedByCount(keys, vals) ==
    IF keys = <<>> THEN <<>>
    ELSE LET i == Min({j \in DOMAIN keys :
                        \A k \in DOMAIN keys : CountOf(vals, keys[k]) <= CountOf(vals, keys[j])})
         IN  <<keys[i]>> \o SortedByCount(SubSeq(keys, 1, i - 1)
                                          \o SubSeq(keys, i + 1, Len(keys)), vals)

FirstN(seq, n) == SubSeq(seq, 1, IF n < Len(seq) THEN n ELSE Len(seq))

\* the sample floor of both paths (drift.py 250, 258)
MinBaselineSamples == 20

\* drift.py 250: max(20, n_bins * 2)
numeric_floor(n_bins) ==
    IF MinBaselineSamples > n_bins * 2 THEN MinBaselineSamples ELSE n_bins * 2

\* drift.py 249: whether the numeric path is taken
takes_numeric(numeric_vals, cat_vals) ==
    numeric_vals # <<>> /\ (RunLen(numeric_vals) >= RunLen(cat_vals) \/ cat_vals = <<>>)

\* the delete done whatever the overwrite flag
baseline_store_always(tbl, row, overwrite) ==
    SelectSeq(tbl, LAMBDA b : baseline_key(b) # baseline_key(row))

\* drift.py 277-285: the baselines left by the delete when overwrite is set
baseline_store(tbl, row, overwrite) ==
    IF overwrite
    THEN SelectSeq(tbl, LAMBDA b : baseline_key(b) # baseline_key(row))
    ELSE tbl

\* drift.py capture_baseline
capture_baseline(db, s, key, feature, w, n_bins, tz, overwrite, top_k_categories) ==
    LET evts == window_events(db.events, key, w, tz)
        numeric_vals == NumsOf(NumberValues(evts, feature))
        cat_vals == StrsOf(CategoricalValues(evts, feature))
        numeric == takes_numeric(numeric_vals, cat_vals)
        edges == _make_bins(numeric_vals, n_bins)
        keys == DictKeys([i \in DOMAIN cat_vals |-> cat_vals[i].v])
        categories == FirstN(SortedByCount(keys, cat_vals), top_k_categories)
        fp == _freq_probs(cat_vals, categories, TRUE)
        row == IF numeric
               THEN FeatureBaseline(key, feature, "numeric", RunLen(numeric_vals),
                                    NumericDef(edges), _hist_probs(numeric_vals, edges))
               ELSE FeatureBaseline(key, feature, "categorical", RunLen(cat_vals),
                                    CategoricalDef(fp.cats, TRUE), fp.probs)
        kept == baseline_store(db.baselines, row, overwrite)
        fail(exc, msg) == [exc |-> exc, msg |-> msg, sess |-> s,
                           baselines |-> db.baselines, out |-> None]
    IN  IF s.state # "active" THEN fail(PendingRollbackError, <<>>)
        ELSE IF window_raises(w)
        THEN fail(ValueError, <<"If using timestamps, provide both start_ts and end_ts.">>)
        ELSE IF evts = <<>>
        THEN fail(ValueError, <<"No events found for baseline capture window.">>)
        ELSE IF numeric /\ RunLen(numeric_vals) < numeric_floor(n_bins)
        THEN fail(ValueError, <<"Not enough numeric values for feature '", feature, "'. Got ">>)
        ELSE IF ~numeric /\ RunLen(cat_vals) < MinBaselineSamples
        THEN fail(ValueError, <<"Not enough categorical values for feature '", feature, "'. Got ">>)
        ELSE IF uq_feature_baseline(kept, row)
        THEN [exc |-> IntegrityError, msg |-> <<>>, sess |-> Session_flush_failed(s),
              baselines |-> db.baselines, out |-> None]
        ELSE [exc |-> NoExc, msg |-> <<>>, sess |-> Session_committed(s),
              baselines |-> Append(kept, row), out |-> Some(row)]

-----------------------------------------------------------------------------
(* Alerts: models.py Alert, services/alerts.py create_alert_once *)

Alert(project_id, model_id, endpoint, day, rule, severity, value, threshold, payload) ==
    [project_id |-> project_id, model_id |-> model_id, endpoint |-> endpoint,
     day |-> day, rule |-> rule, severity |-> severity, value |-> value,
     threshold |-> threshold, payload |-> payload]

alert_key(r) == <<r.project_id, r.model_id, r.endpoint, r.day, r.rule>>

\* a constraint that also lists the severity column
uq_alert_key_severity(rows, r) ==
    \E i \in DOMAIN rows :
        /\ alert_key(rows[i]) = alert_key(r)
        /\ rows[i].severity = r.severity

\* UniqueConstraint uq_alert_key: TRUE when inserting r would violate it
uq_alert_key(rows, r) ==
    \E i \in DOMAIN rows : alert_key(rows[i]) = alert_key(r)

\* an upsert in place of insert-and-catch: the loser overwrites the row
create_alert_once_upsert(tbl, s) ==
    LET row == s.new[1]
    IN  IF uq_alert_key(tbl, row)
        THEN [alerts |-> [i \in DOMAIN tbl |->
                            IF alert_key(tbl[i]) = alert_key(row) THEN row ELSE tbl[i]],
              sess |-> Session_committed(s),
              created |-> FALSE, row |-> None]
        ELSE [alerts |-> Append(tbl, row), sess |-> Session_committed(s),
              created |-> TRUE, row |-> Some(row)]

\* create_alert_once from db.commit() on: the INSERT is flushed; a unique
\* violation raises IntegrityError, which is caught and rolled back
create_alert_once_commit(tbl, s) ==
    LET row == s.new[1]
    IN  IF uq_alert_key(tbl, row)
        THEN [alerts |-> tbl, sess |-> Session_rollback(Session_flush_failed(s)),
              created |-> FALSE, row |-> None]
        ELSE [alerts |-> Append(tbl, row), sess |-> Session_committed(s),
              created |-> TRUE, row |-> Some(row)]


-----------------------------------------------------------------------------
(* Concurrent handlers, each calling create_alert_once once on its own     *)
(* request-scoped Session.  The call is two steps, split where the         *)
(* database is touched: the row is built and added; then commit().         *)

AlertKeyChoices == {<<K1, 1, "drift">>, <<K1, 1, "cost_spike">>, <<K1, 2, "drift">>}

AlertContents ==
    {[severity |-> "WARN", value |-> 15, threshold |-> 10, payload |-> "a"],
     [severity |-> "ALERT", value |-> 30, threshold |-> 25, payload |-> "b"]}

NoRet == [returned |-> FALSE, created |-> FALSE, row |-> None]

InitAlerts ==
    /\ events = <<>>
    /\ baselines = <<>>
    /\ daily_metrics = <<>>
    /\ daily_drift = <<>>
    /\ alerts = <<>>
    /\ sess = [h \in Handlers |-> SessionLocal]
    /\ pc = [h \in Handlers |-> "idle"]
    /\ local = [h \in Handlers |-> None]
    /\ ret = [h \in Handlers |-> NoRet]
    /\ log = <<>>

\* alerts.py 30-41: row = Alert(...); db.add(row)
CreateAlertOnceAdd(h) ==
    /\ pc[h] = "idle"
    /\ \E k \in AlertKeyChoices, c \in AlertContents :
        LET row == Alert(k[1].project_id, k[1].model_id, k[1].endpoint, k[2], k[3],
                         c.severity, c.value, c.threshold, c.payload)
        IN  /\ sess' = [sess EXCEPT ![h] = Session_add(@, row)]
            /\ local' = [local EXCEPT ![h] = Some(row)]
    /\ pc' = [pc EXCEPT ![h] = "commit"]
    /\ UNCHANGED <<tables, ret, log>>

\* alerts.py 42-48: commit, or catch IntegrityError and roll back
CreateAlertOnceCommit(h) ==
    /\ pc[h] = "commit"
    /\ LET r == create_alert_once_commit(alerts, sess[h])
       IN  /\ alerts' = r.alerts
           /\ sess' = [sess EXCEPT ![h] = r.sess]
           /\ ret' = [ret EXCEPT ![h] =
                        [returned |-> TRUE, created |-> r.created, row |-> r.row]]
    /\ pc' = [pc EXCEPT ![h] = "done"]
    /\ UNCHANGED <<events, baselines, daily_metrics, daily_drift, local, log>>

NextAlerts ==
    \E h \in Handlers :
        \/ CreateAlertOnceAdd(h)
        \/ CreateAlertOnceCommit(h)

SpecAlerts == InitAlerts /\ [][NextAlerts]_vars

\* the handlers that have returned from a call for alert key k
ReturnedFor(k) ==
    {h \in Handlers : pc[h] = "done" /\ alert_key(local[h][1]) = k}

AlertRowsFor(k) == SelectSeq(alerts, LAMBDA r : alert_key(r) = k)

\* C1: after any interleaving of create_alert_once calls the alert store
\* holds at most one row for each (project_id, model_id, endpoint, day, rule).
C1_AtMostOneAlertPerKey ==
    \A i, j \in DOMAIN alerts :
        alert_key(alerts[i]) = alert_key(alerts[j]) => i = j

\* C1 witness: two calls for the same key have both returned, one row is stored
C1_Witness ==
    \E h1, h2 \in Handlers :
        /\ h1 # h2
        /\ pc[h1] = "done" /\ pc[h2] = "done"
        /\ alert_key(local[h1][1]) = alert_key(local[h2][1])
        /\ Len(AlertRowsFor(alert_key(local[h1][1]))) = 1

\* C2: a call returns (TRUE, row) when no alert existed for the key and
\* (FALSE, None) when one did; among the attempts for one key exactly one
\* returns created = TRUE, every loser has rolled back, and the stored row is
\* the winner's, unchanged by the losers.
C2_ExactlyOneWinner ==
    \A h \in Handlers :
        pc[h] = "done" =>
            LET row == local[h][1]
                k == alert_key(row)
            IN  /\ ret[h].returned
                /\ Cardinality({w \in ReturnedFor(k) : ret[w].created}) = 1
                /\ sess[h] = SessionLocal
                /\ IF ret[h].created
                   THEN /\ ret[h].row = Some(row)
                        /\ AlertRowsFor(k) = <<row>>
                   ELSE /\ ret[h].row = None
                        /\ Len(AlertRowsFor(k)) = 1

\* C2 witness: a loser whose row differs from the stored winner's row
C2_Witness ==
    \E w, l \in Handlers :
        /\ pc[w] = "done" /\ pc[l] = "done"
        /\ ret[w].created /\ ~ret[l].created
        /\ alert_key(local[w][1]) = alert_key(local[l][1])
        /\ local[w][1] # local[l][1]
        /\ AlertRowsFor(alert_key(local[w][1])) = <<local[w][1]>>

-----------------------------------------------------------------------------
(* The initial event stores: a baseline period on day 0, followed by       *)
(* at most MaxRuns runs of events on day 1.                                *)

\* day 0, 12:00 UTC: 20 events; f is numeric, g categorical, h is rare
History(key) ==
    <<Event(key, 12, [f |-> IntV(0), g |-> StrV("a")], 12),
      Event(key, 12, [f |-> IntV(Unit), g |-> StrV("b")], 7),
      Event(key, 12, [f |-> FloatV(2 * Unit), g |-> StrV("c"), h |-> IntV(Unit)], 1)>>

\* day 1 at 03:00 UTC (still day 0 in America/Vancouver) and at 12:00 UTC
DayRuns(key) ==
    {Event(key, 36, [f |-> IntV(0)], 1),
     Event(key, 36, [f |-> IntV(3 * Unit), g |-> StrV("a")], 2),
     Event(key, 36, [g |-> StrV("z")], 1),
     Event(key, 36, [f |-> BoolV(TRUE), g |-> NullV], 1),
     Event(key, 27, [f |-> FloatV(Unit), h |-> FloatV(Unit \div 2)], 1),
     Event(key, 27, [f |-> StrV("a"), g |-> StrV("b")], 2)}

SeqsUpTo(S, n) == UNION {[1..m -> S] : m \in 0..n}

EventStores(key) == {History(key) \o d : d \in SeqsUpTo(DayRuns(key), MaxRuns)}

DB == [events |-> events, baselines |-> baselines, daily_metrics |-> daily_metrics,
       daily_drift |-> daily_drift, alerts |-> alerts]

\* one request handler at a time, each request on a fresh Session
Api == "api"

-----------------------------------------------------------------------------
(* Baseline capture, one request after another *)

\* the day window of the baseline period, an empty day window, the same
\* period as timestamps, start_ts without end_ts, and the most recent n
WindowDay0 == Window(None, None, Some(0), Some(1), 500)

WindowEmpty == Window(None, None, Some(3), Some(4), 500)

WindowTs == Window(Some(Iso(0, Some(0))), Some(Iso(HoursPerDay, None)), None, None, 500)

WindowHalf == Window(Some(Iso(0, Some(0))), None, Some(0), Some(1), 500)

WindowRecent == Window(None, None, None, Some(1), 500)

\* the (window, tz, n_bins, top_k_categories) of the requests made
CaptureParams ==
    {<<WindowDay0, "UTC", 2, 50>>,
     <<WindowDay0, "America/Vancouver", 3, 1>>,
     <<WindowEmpty, "UTC", 2, 50>>,
     <<WindowTs, "UTC", 3, 2>>,
     <<WindowHalf, "UTC", 2, 50>>,
     <<WindowRecent, "UTC", 2, 1>>}

\* the stores with at most one run after the baseline period
BaselineStores(key) == {History(key) \o d : d \in SeqsUpTo(DayRuns(key), 1)}

InitBaseline ==
    /\ events \in BaselineStores(K1)
    /\ baselines = <<>>
    /\ daily_metrics = <<>>
    /\ daily_drift = <<>>
    /\ alerts = <<>>
    /\ sess = [p \in {Api} |-> SessionLocal]
    /\ pc = [p \in {Api} |-> "idle"]
    /\ local = [p \in {Api} |-> None]
    /\ ret = [p \in {Api} |-> None]
    /\ log = <<>>

\* api/drift.py 62-75: the service's result r becomes the response (any
\* exception is mapped to 400) and the database is what the service left
BaselineCaptureRespond(feature, c, overwrite, r) ==
    /\ baselines' = r.baselines
    /\ ret' = [ret EXCEPT ![Api] =
                Some([op |-> "baseline_capture", key |-> K1, feature |-> feature,
                      overwrite |-> overwrite, params |-> c,
                      status |-> IF r.exc = NoExc THEN 200 ELSE 400,
                      exc |-> r.exc, msg |-> r.msg, out |-> r.out])]
    /\ UNCHANGED <<events, daily_metrics, daily_drift, alerts, sess, pc, local, log>>

\* api/drift.py baseline_capture
BaselineCapture ==
    \E feature \in Features, c \in CaptureParams, overwrite \in BOOLEAN :
        BaselineCaptureRespond(feature, c, overwrite,
            capture_baseline(DB, SessionLocal, K1, feature, c[1], c[3], c[2],
                             overwrite, c[4]))

NextBaseline == BaselineCapture

SpecBaseline == InitBaseline /\ [][NextBaseline]_vars

BaselinesFor(key, feature) ==
    SelectSeq(baselines, LAMBDA b : key_of(b) = key /\ b.feature = feature)

\* C4: however capture_baseline is called, at most one FeatureBaseline exists
\* per (project_id, model_id, endpoint, feature); a successful capture with
\* overwrite leaves the newly captured baseline as the only one of its key;
\* a capture without overwrite on a key that has a baseline fails and leaves
\* that baseline as it was.
C4_BaselineOverwrite ==
    /\ [](\A i, j \in DOMAIN baselines :
            baseline_key(baselines[i]) = baseline_key(baselines[j]) => i = j)
    /\ [][LET r == ret'[Api][1]
              old == BaselinesFor(r.key, r.feature)
              new == SelectSeq(baselines', LAMBDA b : key_of(b) = r.key /\ b.feature = r.feature)
          IN  /\ (r.overwrite /\ r.exc = NoExc) => new = <<r.out[1]>>
              /\ (~r.overwrite /\ old # <<>>) => (r.exc # NoExc /\ baselines' = baselines)
              /\ r.exc # NoExc => baselines' = baselines]_vars

\* C4 witness: a baseline of another shape has replaced the first one captured
C4_Witness ==
    /\ ret[Api] # None
    /\ ret[Api][1].exc = NoExc /\ ret[Api][1].overwrite
    /\ Len(baselines) = 2
    /\ \E i \in DOMAIN baselines :
        /\ baselines[i] = ret[Api][1].out[1]
        /\ Len(baselines[i].baseline_probs) = 3
        /\ i = 2 /\ baselines[1].feature_type = "categorical"

-----------------------------------------------------------------------------
(* api/drift.py: the compute and compute_all handlers, services/slack.py *)

SlackError == "SlackError"

\* core/config.py slack_enabled, slack_webhook_url, and what the webhook
\* answers: an HTTP status, or 0 for a request that failed
SlackSettings(slack_enabled, slack_webhook_url, http) ==
    [slack_enabled |-> slack_enabled, slack_webhook_url |-> slack_webhook_url, http |-> http]

SlackOff == SlackSettings(FALSE, None, 200)

\* services/slack.py send_slack_message
send_slack_message(cfg) ==
    IF ~cfg.slack_enabled THEN [exc |-> NoExc, msg |-> <<>>, posted |-> FALSE]
    ELSE IF cfg.slack_webhook_url = None
    THEN [exc |-> SlackError, msg |-> <<"SLACK_WEBHOOK_URL is not set">>, posted |-> FALSE]
    ELSE IF cfg.http = 0
    THEN [exc |-> SlackError, msg |-> <<"Slack request failed: ">>, posted |-> FALSE]
    ELSE IF cfg.http >= 300
    THEN [exc |-> SlackError, msg |-> <<"Slack webhook returned ">>, posted |-> TRUE]
    ELSE [exc |-> NoExc, msg |-> <<>>, posted |-> TRUE]

\* create_alert_once on a table without the unique constraint
create_alert_once_unconstrained(tbl, s, row) ==
    [alerts |-> Append(tbl, row), sess |-> Session_committed(s), created |-> TRUE,
     row |-> Some(row)]

\* services/alerts.py create_alert_once: (created, row, alerts table, Session)
create_alert_once(tbl, s, row) ==
    create_alert_once_commit(tbl, Session_add(s, row))

\* the fields a handler's response always has
Response(op, key, day, status, exc, msg, out) ==
    [op |-> op, key |-> key, day |-> day, status |-> status, exc |-> exc, msg |-> msg,
     out |-> out]

\* api/drift.py 102-103, 196-197: any exception becomes a 400
Http400(op, key, day, r) ==
    [resp |-> Response(op, key, day, 400, r.exc, r.msg, None),
     daily_drift |-> r.daily_drift, sess |-> r.sess]

\* api/drift.py compute_one, given what compute_daily_drift returned
compute_one_respond(key, day, r) ==
    IF r.exc # NoExc THEN Http400("compute", key, day, r)
    ELSE [resp |-> Response("compute", key, day, 200, NoExc, <<>>, r.out),
          daily_drift |-> r.daily_drift, sess |-> r.sess]

\* api/drift.py 134-193: the alert fields of the response
AlertFields(alert_created, alert_id, slack_alert_sent, slack_enabled, slack_note, threshold) ==
    [alert_created |-> alert_created, alert_id |-> alert_id,
     slack_alert_sent |-> slack_alert_sent, slack_enabled |-> slack_enabled,
     slack_note |-> slack_note, threshold |-> threshold]

\* api/drift.py 161-177: the Slack part, given what send_slack_message did
slack_fields(created, cfg, sent, threshold) ==
    IF ~cfg.slack_enabled
    THEN AlertFields(Some(created.created),
                     IF created.created THEN Some(Len(created.alerts)) ELSE None,
                     Some(FALSE), Some(FALSE), <<"Slack disabled; no message sent.">>,
                     threshold)
    ELSE AlertFields(Some(created.created),
                     IF created.created THEN Some(Len(created.alerts)) ELSE None,
                     Some(sent.exc = NoExc), Some(TRUE),
                     IF sent.exc = NoExc THEN <<"Slack message sent.">> ELSE sent.msg,
                     threshold)

\* the alert part of compute_all alerting only above the threshold
compute_all_alert_above(db, res, alert, threshold, cfg, created) ==
    IF ~alert
    THEN [alerts |-> db.alerts, posted |-> FALSE,
          fields |-> AlertFields(None, None, None, None, <<>>, threshold)]
    ELSE IF res.max_psi > threshold
    THEN [alerts |-> created.alerts, posted |-> send_slack_message(cfg).posted,
          fields |-> slack_fields(created, cfg, send_slack_message(cfg), threshold)]
    ELSE [alerts |-> db.alerts, posted |-> FALSE,
          fields |-> AlertFields(Some(FALSE), None, Some(FALSE), Some(cfg.slack_enabled),
                                 <<"No alert: max_psi below threshold.">>, threshold)]

\* api/drift.py 140-193: the alert part of compute_all after a successful
\* compute_daily_drift_all with result res; created is what create_alert_once
\* returns when it is called
compute_all_alert(db, res, alert, threshold, cfg, created) ==
    IF ~alert
    THEN [alerts |-> db.alerts, posted |-> FALSE,
          fields |-> AlertFields(None, None, None, None, <<>>, threshold)]
    ELSE IF res.max_psi >= threshold
    THEN [alerts |-> created.alerts, posted |-> send_slack_message(cfg).posted,
          fields |-> slack_fields(created, cfg, send_slack_message(cfg), threshold)]
    ELSE [alerts |-> db.alerts, posted |-> FALSE,
          fields |-> AlertFields(Some(FALSE), None, Some(FALSE), Some(cfg.slack_enabled),
                                 <<"No alert: max_psi below threshold.">>, threshold)]

\* the Alert row compute_all asks create_alert_once for (api/drift.py 146-157)
drift_alert(key, day, res, threshold) ==
    Alert(key.project_id, key.model_id, key.endpoint, day, "drift",
          classify_severity(res.max_psi), res.max_psi, threshold, res)

\* compute_all without the try/except around send_slack_message: a failure
\* of the notifier reaches the handler's except clause and becomes a 400
compute_all_respond_unguarded(db, key, day, alert, threshold, cfg, r) ==
    IF r.exc # NoExc
    THEN [resp |-> Response("compute_all", key, day, 400, r.exc, r.msg, None),
          daily_drift |-> r.daily_drift, alerts |-> db.alerts, sess |-> r.sess,
          posted |-> FALSE, fields |-> AlertFields(None, None, None, None, <<>>, threshold)]
    ELSE LET a == compute_all_alert(db, r.out[1], alert, threshold, cfg,
                     create_alert_once(db.alerts, r.sess,
                                       drift_alert(key, day, r.out[1], threshold)))
         IN  IF alert /\ r.out[1].max_psi >= threshold /\ send_slack_message(cfg).exc # NoExc
             THEN [resp |-> Response("compute_all", key, day, 400, SlackError,
                                     send_slack_message(cfg).msg, None),
                   daily_drift |-> r.daily_drift, alerts |-> a.alerts, sess |-> r.sess,
                   posted |-> a.posted,
                   fields |-> AlertFields(None, None, None, None, <<>>, threshold)]
             ELSE [resp |-> Response("compute_all", key, day, 200, NoExc, <<>>, r.out),
                   daily_drift |-> r.daily_drift, alerts |-> a.alerts, sess |-> r.sess,
                   posted |-> a.posted, fields |-> a.fields]

\* api/drift.py compute_all, given what compute_daily_drift_all returned
compute_all_respond(db, key, day, alert, threshold, cfg, r) ==
    IF r.exc # NoExc
    THEN [resp |-> Response("compute_all", key, day, 400, r.exc, r.msg, None),
          daily_drift |-> r.daily_drift, alerts |-> db.alerts, sess |-> r.sess,
          posted |-> FALSE, fields |-> AlertFields(None, None, None, None, <<>>, threshold)]
    ELSE LET a == compute_all_alert(db, r.out[1], alert, threshold, cfg,
                     create_alert_once(db.alerts, r.sess,
                                       drift_alert(key, day, r.out[1], threshold)))
         IN  [resp |-> Response("compute_all", key, day, 200, NoExc, <<>>, r.out),
              daily_drift |-> r.daily_drift, alerts |-> a.alerts, sess |-> r.sess,
              posted |-> a.posted, fields |-> a.fields]

-----------------------------------------------------------------------------
(* Drift requests, one after another, over a store with baselines captured *)
(* from the baseline period                                                *)

\* the store a baseline is captured from
HistoryDB(key) ==
    [events |-> History(key), baselines |-> <<>>, daily_metrics |-> <<>>,
     daily_drift |-> <<>>, alerts |-> <<>>]

\* the baseline capture_baseline writes for a feature of the baseline period
Captured(key, feature, n_bins, top_k_categories) ==
    capture_baseline(HistoryDB(key), SessionLocal, key, feature, WindowDay0, n_bins, "UTC",
                     TRUE, top_k_categories).out[1]

\* the initial baseline tables: f and g, f alone with three
\* bins, g alone with its top category, none
BaselineTables(key) ==
    {<<Captured(key, "f", 2, 50), Captured(key, "g", 2, 50)>>,
     <<Captured(key, "f", 3, 50)>>,
     <<Captured(key, "g", 2, 1)>>,
     <<>>}

\* the day every drift request is about
DriftDay == 1

\* a threshold some request meets exactly: the psi of f when the day's only
\* numeric value of f falls in the first of two bins
BoundaryThreshold == psi(<<600000, 400000>>, <<1000000, 0>>)

\* the (tz, overwrite, alert, threshold, Slack settings) of compute_all requests
ComputeAllParams ==
    {<<"UTC", TRUE, FALSE, 250000, SlackOff>>,
     <<"UTC", FALSE, FALSE, 250000, SlackOff>>,
     <<"America/Vancouver", TRUE, FALSE, 250000, SlackOff>>,
     <<"America/Vancouver", FALSE, FALSE, 250000, SlackOff>>,
     <<"UTC", TRUE, TRUE, 0, SlackOff>>,
     <<"UTC", FALSE, TRUE, 250000, SlackSettings(TRUE, Some("url"), 200)>>,
     <<"America/Vancouver", TRUE, TRUE, 100000, SlackSettings(TRUE, Some("url"), 500)>>,
     <<"UTC", FALSE, TRUE, 0, SlackSettings(TRUE, None, 200)>>,
     <<"UTC", FALSE, TRUE, BoundaryThreshold, SlackOff>>}

InitDrift ==
    /\ events \in EventStores(K1)
    /\ baselines \in BaselineTables(K1)
    /\ daily_metrics = <<>>
    /\ daily_drift = <<>>
    /\ alerts = <<>>
    /\ sess = [p \in {Api} |-> SessionLocal]
    /\ pc = [p \in {Api} |-> "idle"]
    /\ local = [p \in {Api} |-> [calls |-> 0]]
    /\ ret = [p \in {Api} |-> None]
    /\ log = <<>>

\* the request of the last call, kept with its response
Request(feature, tz, min_samples, overwrite, alert, threshold) ==
    [feature |-> feature, tz |-> tz, min_samples |-> min_samples, overwrite |-> overwrite,
     alert |-> alert, threshold |-> threshold]

\* the handler returns: the response is recorded, the database is what the
\* handler left
Respond(req, h, alerts_after, fields) ==
    /\ local[Api].calls < MaxCalls
    /\ local' = [local EXCEPT ![Api].calls = @ + 1]
    /\ daily_drift' = h.daily_drift
    /\ alerts' = alerts_after
    /\ ret' = [ret EXCEPT ![Api] = Some([req |-> req, resp |-> h.resp, fields |-> fields])]
    /\ UNCHANGED <<events, baselines, daily_metrics, sess, pc, log>>

NoAlertFields == AlertFields(None, None, None, None, <<>>, 0)

\* api/drift.py compute_one
ComputeOne ==
    \E feature \in Features, tz \in TZs, min_samples \in 1..MaxMinSamples :
        Respond(Request(feature, tz, min_samples, FALSE, FALSE, 0),
                compute_one_respond(K1, DriftDay,
                    compute_daily_drift(DB, SessionLocal, K1, DriftDay, feature, tz,
                                        min_samples)),
                alerts, NoAlertFields)

\* a compute_all request and the Slack settings in force when it is served
ComputeAllRequest(c, min_samples) ==
    Request("", c[1], min_samples, c[2], c[3], c[4]) @@ [settings |-> c[5]]

ComputeAllReturn(req, h) == Respond(req, h, h.alerts, h.fields)

\* api/drift.py compute_all
ComputeAll ==
    \E c \in ComputeAllParams, min_samples \in 1..MaxMinSamples :
        ComputeAllReturn(ComputeAllRequest(c, min_samples),
            compute_all_respond(DB, K1, DriftDay, c[3], c[4], c[5],
                compute_daily_drift_all(DB, SessionLocal, K1, DriftDay, c[1], min_samples,
                                        c[2])))

NextDrift == ComputeOne \/ ComputeAll

SpecDrift == InitDrift /\ [][NextDrift]_vars

-----------------------------------------------------------------------------
(* Properties of the drift handlers *)

\* the last request and its response
Last == ret[Api][1]

\* a successful response of handler op is the last one
Succeeded(op) ==
    /\ ret[Api] # None
    /\ Last.resp.op = op
    /\ Last.resp.status = 200

\* the features of the key that have a baseline
Baselined(key) == {baselines[i].feature : i \in {j \in DOMAIN baselines : key_of(baselines[j]) = key}}

\* the number of values of the type of the feature's baseline among the
\* events of the day window of time zone tz
TypeCount(key, day, tz, feature) ==
    LET evts == EventsIn(events, key, _day_range_utc(day, tz)[1], _day_range_utc(day, tz)[2])
    IN  IF BaselineFor(baselines, key, feature)[1].feature_type = "numeric"
        THEN RunLen(NumberValues(evts, feature))
        ELSE RunLen(CategoricalValues(evts, feature))

\* the largest psi of a psi map
MaxOf(psi_map) == Max({psi_map[f].psi : f \in DOMAIN psi_map})

\* C5: after a successful compute or compute_all the stored DailyDrift row of
\* (key, day) has max_psi equal to the largest psi of its stored map and
\* max_psi_feature a feature attaining it, and the max_psi and
\* max_psi_feature compute_all returns with overwrite = false are the maximum
\* over the stored (merged) map.
C5_StoredMaxOverStoredMap ==
    (Succeeded("compute") \/ Succeeded("compute_all")) =>
        LET i == DriftRowIndex(daily_drift, K1, DriftDay)
        IN  /\ i # 0
            /\ daily_drift[i].max_psi = Some(MaxOf(daily_drift[i].psi))
            /\ daily_drift[i].max_psi_feature # None
            /\ daily_drift[i].psi[daily_drift[i].max_psi_feature[1]].psi
                   = MaxOf(daily_drift[i].psi)
            /\ (Last.resp.op = "compute_all" /\ ~Last.req.overwrite) =>
                   /\ Last.resp.out[1].max_psi = MaxOf(daily_drift[i].psi)
                   /\ daily_drift[i].psi[Last.resp.out[1].max_psi_feature].psi
                          = MaxOf(daily_drift[i].psi)

\* C6: a successful compute_all with overwrite makes the stored psi map
\* exactly this call's results; without overwrite the stored map is the old
\* map with this call's results written over it, every other old entry kept.
C6_OverwriteReplacesElseMerges ==
    [][LET r == ret'[Api][1]
           old == StoredPsi(daily_drift, K1, DriftDay)
           new == daily_drift'[Min({i \in DOMAIN daily_drift' :
                                      drift_key(daily_drift'[i])
                                          = drift_key(DailyDrift(K1, DriftDay, EmptyMap))})].psi
       IN  (r.resp.op = "compute_all" /\ r.resp.status = 200) =>
               IF r.req.overwrite
               THEN new = r.resp.out[1].psi
               ELSE /\ DOMAIN new = DOMAIN old \cup DOMAIN r.resp.out[1].psi
                    /\ \A f \in DOMAIN new :
                         new[f] = IF f \in DOMAIN r.resp.out[1].psi
                                  THEN r.resp.out[1].psi[f] ELSE old[f]]_vars

\* C6 witness: a merge has kept the entry of a feature this call skipped for
\* low samples
C6_Witness ==
    /\ Succeeded("compute_all")
    /\ ~Last.req.overwrite
    /\ \E f \in DOMAIN StoredPsi(daily_drift, K1, DriftDay) :
        /\ f \notin DOMAIN Last.resp.out[1].psi
        /\ f \in DOMAIN Last.resp.out[1].skipped_low_sample

\* C7: in a successful compute_all every baselined feature of the key is in
\* the returned psi map or in skipped_low_sample with its count of values of
\* the baseline's type, a feature no event of the day carries included.
C7_EveryBaselinedFeatureReported ==
    Succeeded("compute_all") =>
        \A f \in Baselined(K1) :
            \/ f \in DOMAIN Last.resp.out[1].psi
            \/ /\ f \in DOMAIN Last.resp.out[1].skipped_low_sample
               /\ Last.resp.out[1].skipped_low_sample[f]
                      = TypeCount(K1, DriftDay, Last.req.tz, f)

\* C8: for a baselined feature drift is computed exactly when the day window
\* holds at least min_samples values of the baseline's type: compute fails
\* with "Not enough ..." below that and succeeds from it on, and a successful
\* compute_all has the feature in psi from it on and in skipped_low_sample
\* below it.
C8_ComputedIffMinSamples ==
    /\ (ret[Api] # None /\ Last.resp.op = "compute" /\ Last.req.feature \in Baselined(K1)) =>
          IF TypeCount(K1, DriftDay, Last.req.tz, Last.req.feature) >= Last.req.min_samples
          THEN Last.resp.status = 200
          ELSE Last.resp.exc = ValueError /\ Contains("Not enough", Last.resp.msg)
    /\ Succeeded("compute_all") =>
          \A f \in Baselined(K1) :
              IF TypeCount(K1, DriftDay, Last.req.tz, f) >= Last.req.min_samples
              THEN f \in DOMAIN Last.resp.out[1].psi
              ELSE /\ f \notin DOMAIN Last.resp.out[1].psi
                   /\ f \in DOMAIN Last.resp.out[1].skipped_low_sample

\* the alert rows of rule "drift" for the key and day of the drift requests
DriftAlerts(tbl) ==
    SelectSeq(tbl, LAMBDA a : alert_key(a) = <<K1.project_id, K1.model_id, K1.endpoint,
                                               DriftDay, "drift">>)

\* C3: a compute_all invocation with alert = true whose drift computation
\* raises no ValueError succeeds; when its max_psi is at or above the
\* threshold it reports alert_created = true if no "drift" alert existed for
\* (key, day) and alert_created = false if one did, leaving that alert as it
\* was, and exactly one "drift" alert row exists afterwards: of two such
\* invocations the first creates the alert and the second does not.
C3_ComputeAllAlertsOnce ==
    /\ [](Len(DriftAlerts(alerts)) <= 1)
    /\ [][LET r == ret'[Api][1]
          IN  (r.resp.op = "compute_all" /\ r.req.alert /\ r.resp.exc # ValueError) =>
                  /\ r.resp.status = 200
                  /\ r.resp.out[1].max_psi >= r.req.threshold =>
                        /\ r.fields.alert_created = Some(DriftAlerts(alerts) = <<>>)
                        /\ Len(DriftAlerts(alerts')) = 1
                        /\ DriftAlerts(alerts) # <<>> => alerts' = alerts]_vars

\* C3 witness: the second of two alerting invocations has succeeded and
\* reported alert_created = false, one "drift" alert being stored
C3_Witness ==
    /\ Succeeded("compute_all")
    /\ local[Api].calls = 2
    /\ Last.req.alert
    /\ Last.resp.out[1].max_psi >= Last.req.threshold
    /\ Last.fields.alert_created = Some(FALSE)
    /\ Len(DriftAlerts(alerts)) = 1
    /\ alerts[1].value # Last.resp.out[1].max_psi

-----------------------------------------------------------------------------
(* services/metrics.py: compute_daily_metrics; models.py DailyMetric *)

DailyMetric(key, day, n_events, feature_stats) ==
    [project_id |-> key.project_id, model_id |-> key.model_id, endpoint |-> key.endpoint,
     day |-> day, n_events |-> n_events, latency_p50_ms |-> None, latency_p95_ms |-> None,
     y_pred_rate |-> None, y_proba_mean |-> None, feature_stats |-> feature_stats]

metric_key(r) == <<r.project_id, r.model_id, r.endpoint, r.day>>

\* UniqueConstraint uq_daily_metrics: TRUE when inserting r would violate it
uq_daily_metrics(rows, r) ==
    \E i \in DOMAIN rows : metric_key(rows[i]) = metric_key(r)

\* sum of the numbers of a list held as runs
RECURSIVE RunSum(_)
RunSum(runs) ==
    IF runs = <<>> THEN 0 ELSE Head(runs).v * Head(runs).n + RunSum(Tail(runs))

\* sum((x - mean) ** 2 for x in vals)
RECURSIVE SquaresAbout(_, _)
SquaresAbout(runs, mean) ==
    IF runs = <<>> THEN 0
    ELSE (Head(runs).v - mean) * (Head(runs).v - mean) * Head(runs).n
         + SquaresAbout(Tail(runs), mean)

\* var ** 0.5, rounded down
Isqrt(n) == CHOOSE r \in 0..(4 * Unit) : r * r <= n /\ n < (r + 1) * (r + 1)

\* metrics.py 108-111: mean and std of the numeric values of one feature
FeatureStat(vals) ==
    [mean |-> RunSum(vals) \div RunLen(vals),
     std |-> Isqrt(SquaresAbout(vals, RunSum(vals) \div RunLen(vals)) \div RunLen(vals))]

\* metrics.py 97-111: the stats of every feature that has a numeric value
feature_stats_of(evts) ==
    [f \in {g \in seen_features(evts) : NumberValues(evts, g) # <<>>} |->
        FeatureStat(NumsOf(NumberValues(evts, f)))]

\* no delete, whatever overwrite is
metrics_store_kept(tbl, row, overwrite) == tbl

\* metrics.py 113-121: the rows left by the delete when overwrite is set
metrics_store(tbl, row, overwrite) ==
    IF overwrite
    THEN SelectSeq(tbl, LAMBDA m : metric_key(m) # metric_key(row))
    ELSE tbl

\* metrics.py 113-151: the delete, the insert and the commit
metrics_commit(db, s, row, kept) ==
    IF uq_daily_metrics(kept, row)
    THEN [exc |-> IntegrityError, msg |-> <<>>, sess |-> Session_flush_failed(s),
          daily_metrics |-> db.daily_metrics, out |-> None]
    ELSE [exc |-> NoExc, msg |-> <<>>, sess |-> Session_committed(s),
          daily_metrics |-> Append(kept, row), out |-> Some(row)]

\* metrics.py 85-151: compute_daily_metrics once the events are loaded
metrics_of(db, s, overwrite, row) ==
    metrics_commit(db, s, row, metrics_store(db.daily_metrics, row, overwrite))

\* metrics.py compute_daily_metrics
compute_daily_metrics(db, s, key, day, tz, overwrite) ==
    IF s.state # "active"
    THEN [exc |-> PendingRollbackError, msg |-> <<>>, sess |-> s,
          daily_metrics |-> db.daily_metrics, out |-> None]
    ELSE metrics_of(db, s, overwrite,
             DailyMetric(key, day,
                 RunLen(EventsIn(db.events, key, _day_range_utc(day, tz)[1],
                                 _day_range_utc(day, tz)[2])),
                 feature_stats_of(EventsIn(db.events, key, _day_range_utc(day, tz)[1],
                                           _day_range_utc(day, tz)[2]))))

-----------------------------------------------------------------------------
(* worker.py: run_once, one step per key of each of its loops *)

W == "worker"

\* the keys in ORDER BY project_id, model_id, endpoint order
KeyOrder == <<K1, K2>>

\* worker.py _discover_model_keys
_discover_model_keys(db) ==
    SelectSeq(KeyOrder, LAMBDA k : \E i \in DOMAIN db.events : key_of(db.events[i]) = k)

\* worker.py _discover_projects
_discover_projects(db) ==
    IF db.events = <<>> THEN <<>> ELSE <<"p1">>

\* worker.py _has_any_baseline: the COUNT(*) query runs on the Session
_has_any_baseline(db, s, key) ==
    IF s.state # "active"
    THEN [exc |-> PendingRollbackError, out |-> FALSE]
    ELSE [exc |-> NoExc, out |-> OfKey(db.baselines, key) # <<>>]

\* a log line: log.exception is level "error" with the stack trace
LogLine(level, stack_trace, event, key, err) ==
    [level |-> level, stack_trace |-> stack_trace, event |-> event, key |-> key, err |-> err]

log_info(event, key, err) == LogLine("info", FALSE, event, key, err)

log_exception(event, key, err) == LogLine("error", TRUE, event, key, err)

log_warning(event, key, err) == LogLine("warning", FALSE, event, key, err)

\* what str(e) is for a storage error (no message piece the worker tests)
StrOf(r) == IF r.exc = ValueError THEN r.msg ELSE <<r.exc>>

\* worker.py 110-136: the log line of the metrics step of one key
metrics_log(key, r) ==
    IF r.exc = NoExc THEN log_info("metrics ok", key, <<>>)
    ELSE log_exception("metrics failed", key, StrOf(r))

\* worker.py 162-231: the log line after compute_daily_drift_all returned r
drift_log(key, r) ==
    IF r.exc = NoExc THEN log_info("drift ok", key, <<>>)
    ELSE IF r.exc # ValueError THEN log_exception("drift failed", key, StrOf(r))
    ELSE IF Contains("No baselines found", r.msg)
    THEN log_info("drift skipped (no baselines)", key, <<>>)
    ELSE IF Contains("No events found", r.msg) \/ Contains("n_events", r.msg)
    THEN log_info("drift skipped (no events for day)", key, <<>>)
    ELSE IF \/ Contains("min_samples", r.msg)
            \/ Contains("Not enough", r.msg)
            \/ Contains("insufficient", r.msg)
    THEN log_info("drift skipped (insufficient samples)", key, r.msg)
    ELSE log_exception("drift failed", key, r.msg)

\* services/costs.py pull_and_store_daily_costs: Cost Explorer answers or
\* raises; the rows go to daily_costs through the Session
pull_and_store_daily_costs(s, aws_ok) ==
    IF ~aws_ok THEN [exc |-> "ClientError", msg |-> <<>>]
    ELSE IF s.state # "active" THEN [exc |-> PendingRollbackError, msg |-> <<>>]
    ELSE [exc |-> NoExc, msg |-> <<>>]

\* worker.py 235-256: the log line of the costs step of one project
costs_log(project_id, r) ==
    IF r.exc = NoExc THEN log_info("costs ok", project_id, <<>>)
    ELSE log_warning("costs skipped/failed (non-fatal)", project_id, StrOf(r))

\* db.close()
Session_close(s) == [new |-> <<>>, state |-> "closed"]

\* the event stores a worker iteration finds: none, or both models' baseline
\* periods and at most one run of day 1 for each
WorkerStores ==
    {<<>>} \cup
    {History(K1) \o d1 \o History(K2) \o d2 :
        d1 \in SeqsUpTo(DayRuns(K1), 1),
        d2 \in SeqsUpTo({r \in DayRuns(K2) : r.n = 2 /\ r.timestamp = 36}, 1)}

\* the baselines captured before the iteration
WorkerBaselines ==
    {b1 \o b2 : b1 \in BaselineTables(K1), b2 \in {<<Captured(K2, "f", 2, 50)>>, <<>>}}

\* the DailyMetric rows an earlier iteration left for the day, computed
\* before the day's events arrived
WorkerMetricRows ==
    {SelectSeq(<<DailyMetric(K1, DriftDay, 0, <<>>), DailyMetric(K2, DriftDay, 0, <<>>)>>,
               LAMBDA m : key_of(m) \in S) : S \in SUBSET Keys}

\* worker.py main 264-270: the iteration's settings
WorkerSettings(tz, overwrite, drift_min_samples) ==
    [tz |-> tz, day |-> DriftDay, overwrite |-> overwrite,
     drift_min_samples |-> drift_min_samples, keys |-> <<>>, projects |-> <<>>, i |-> 0]

InitWorker ==
    /\ events \in WorkerStores
    /\ baselines \in WorkerBaselines
    /\ daily_metrics \in WorkerMetricRows
    /\ events = <<>> => (baselines = <<>> /\ daily_metrics = <<>>)
    /\ daily_drift = <<>>
    /\ alerts = <<>>
    /\ sess = [p \in {W} |-> SessionLocal]
    /\ pc = [p \in {W} |-> "idle"]
    /\ \E tz \in TZs, overwrite \in BOOLEAN, drift_min_samples \in 1..MaxMinSamples :
          local = [p \in {W} |-> WorkerSettings(tz, overwrite, drift_min_samples)]
    /\ ret = [p \in {W} |-> None]
    /\ log = <<>>

\* worker.py 97-106: discover the keys; with none the iteration ends
WorkerStart ==
    /\ pc[W] = "idle"
    /\ IF _discover_model_keys(DB) = <<>>
       THEN /\ log' = Append(log, log_info("No events found yet; skipping compute.", "", <<>>))
            /\ pc' = [pc EXCEPT ![W] = "done"]
            /\ sess' = [sess EXCEPT ![W] = Session_close(@)]
            /\ UNCHANGED local
       ELSE /\ log' = Append(log, log_info("Discovered keys.", "", <<>>))
            /\ pc' = [pc EXCEPT ![W] = "metrics"]
            /\ local' = [local EXCEPT ![W].keys = _discover_model_keys(DB),
                                      ![W].projects = _discover_projects(DB),
                                      ![W].i = 1]
            /\ UNCHANGED sess
    /\ UNCHANGED <<tables, ret>>

\* the loop moves to its next key, or the next loop starts
NextKey(next_pc) ==
    IF local[W].i < Len(local[W].keys)
    THEN /\ local' = [local EXCEPT ![W].i = @ + 1]
         /\ UNCHANGED pc
    ELSE /\ local' = [local EXCEPT ![W].i = 1]
         /\ pc' = [pc EXCEPT ![W] = next_pc]

\* worker.py 109-136 for one key, r being what compute_daily_metrics did
WorkerMetricsDone(key, r) ==
    /\ daily_metrics' = r.daily_metrics
    /\ sess' = [sess EXCEPT ![W] = r.sess]
    /\ log' = Append(log, metrics_log(key, r))
    /\ NextKey("drift")
    /\ UNCHANGED <<events, baselines, daily_drift, alerts, ret>>

\* worker.py 109-136: the metrics of one key
WorkerMetrics ==
    /\ pc[W] = "metrics"
    /\ WorkerMetricsDone(local[W].keys[local[W].i],
           compute_daily_metrics(DB, sess[W], local[W].keys[local[W].i], local[W].day,
                                 local[W].tz, local[W].overwrite))

\* worker.py 162-231 for one key, r being what compute_daily_drift_all did
WorkerDriftDone(key, r) ==
    /\ daily_drift' = r.daily_drift
    /\ sess' = [sess EXCEPT ![W] = r.sess]
    /\ log' = Append(log, drift_log(key, r))

\* worker.py 140-231 for one key, has being what _has_any_baseline did
WorkerDriftKey(key, has) ==
    /\ IF has.exc # NoExc
       THEN /\ log' = Append(log, log_exception("drift baseline precheck failed", key,
                                                <<has.exc>>))
            /\ UNCHANGED <<daily_drift, sess>>
       ELSE IF ~has.out
       THEN /\ log' = Append(log, log_info("drift skipped (no baselines)", key, <<>>))
            /\ UNCHANGED <<daily_drift, sess>>
       ELSE WorkerDriftDone(key,
                compute_daily_drift_all(DB, sess[W], key, local[W].day, local[W].tz,
                                        local[W].drift_min_samples, local[W].overwrite))
    /\ NextKey("costs")
    /\ UNCHANGED <<events, baselines, daily_metrics, alerts, ret>>

\* worker.py 140-231: the drift of one key
WorkerDrift ==
    /\ pc[W] = "drift"
    /\ WorkerDriftKey(local[W].keys[local[W].i],
                      _has_any_baseline(DB, sess[W], local[W].keys[local[W].i]))

\* worker.py 234-259: the costs of the one project, then db.close()
WorkerCosts ==
    /\ pc[W] = "costs"
    /\ \E aws_ok \in BOOLEAN :
          log' = Append(log, costs_log(local[W].projects[1],
                                       pull_and_store_daily_costs(sess[W], aws_ok)))
    /\ sess' = [sess EXCEPT ![W] = Session_close(@)]
    /\ pc' = [pc EXCEPT ![W] = "done"]
    /\ UNCHANGED <<tables, local, ret>>

NextWorker == WorkerStart \/ WorkerMetrics \/ WorkerDrift \/ WorkerCosts

SpecWorker == InitWorker /\ [][NextWorker]_vars

-----------------------------------------------------------------------------
(* Properties of the worker iteration *)

\* the key the worker's current loop is at
CurrentKey == local[W].keys[local[W].i]

\* the line the step has just logged
Logged == log'[Len(log')]

\* C9: a failure while processing one key, a storage error raised on commit
\* included, does not keep the metrics and the drift of any other key from
\* completing: every key's metrics step and drift step writes and logs what
\* it would on a Session no earlier key has failed on.
C9_KeysIndependentOfEarlierFailures ==
    [][/\ pc[W] = "metrics" =>
            LET r == compute_daily_metrics(DB, SessionLocal, CurrentKey, local[W].day,
                                           local[W].tz, local[W].overwrite)
            IN  /\ daily_metrics' = r.daily_metrics
                /\ Logged = metrics_log(CurrentKey, r)
       /\ pc[W] = "drift" =>
            IF OfKey(baselines, CurrentKey) = <<>>
            THEN /\ Logged = log_info("drift skipped (no baselines)", CurrentKey, <<>>)
                 /\ daily_drift' = daily_drift
            ELSE LET r == compute_daily_drift_all(DB, SessionLocal, CurrentKey, local[W].day,
                                                  local[W].tz, local[W].drift_min_samples,
                                                  local[W].overwrite)
                 IN  /\ daily_drift' = r.daily_drift
                     /\ Logged = drift_log(CurrentKey, r)]_vars

\* C10: when compute_daily_drift_all fails because no baselined feature
\* reached min_samples ("No drift computed ..."), the worker logs an
\* informational skip, never an error-level line with a stack trace.
C10_NoDriftComputedIsInformational ==
    \A i \in DOMAIN log :
        InSeq("No drift computed. missing_baseline=", log[i].err) =>
            /\ log[i].level = "info"
            /\ ~log[i].stack_trace

\* C11: a worker iteration over a store where no key has a baseline logs an
\* informational "drift skipped (no baselines)" for every discovered key,
\* never reaches compute_daily_drift_all (no drift outcome is logged), writes
\* no DailyDrift row and no alert, and ends with no error-level log line.
C11_NoBaselinesSkipsEveryKey ==
    (pc[W] = "done" /\ baselines = <<>>) =>
        /\ \A i \in DOMAIN local[W].keys :
              \E j \in DOMAIN log :
                  /\ log[j].event = "drift skipped (no baselines)"
                  /\ log[j].level = "info"
                  /\ log[j].key = local[W].keys[i]
        /\ \A j \in DOMAIN log :
              /\ log[j].event \notin {"drift ok", "drift failed",
                                      "drift skipped (no events for day)",
                                      "drift skipped (insufficient samples)"}
              /\ log[j].level # "error"
        /\ daily_drift = <<>>
        /\ alerts = <<>>


-----------------------------------------------------------------------------
(* Concurrent drift computations for one (key, day): every handler runs on *)
(* its own Session; between the SELECT of the DailyDrift row (drift.py     *)
(* 383-390, 516-523) and db.commit() (404, 534) other handlers may run.    *)

\* the requests of the concurrent handlers: compute_daily_drift for f or g,
\* compute_daily_drift_all merging or overwriting
ConcurrentRequests ==
    {[op |-> "compute", feature |-> "f", overwrite |-> FALSE],
     [op |-> "compute", feature |-> "g", overwrite |-> FALSE],
     [op |-> "compute_all", feature |-> "", overwrite |-> FALSE],
     [op |-> "compute_all", feature |-> "", overwrite |-> TRUE]}

\* the day's events of the concurrent handlers: the baseline period and at
\* most one run of day 1
ConcurrentStores(key) == {History(key) \o d : d \in SeqsUpTo(DayRuns(key), 1)}

InitConcurrent ==
    /\ events \in ConcurrentStores(K1)
    /\ baselines = <<Captured(K1, "f", 2, 50), Captured(K1, "g", 2, 50)>>
    /\ daily_metrics = <<>>
    /\ daily_drift = <<>>
    /\ alerts = <<>>
    /\ sess = [h \in Handlers |-> SessionLocal]
    /\ pc = [h \in Handlers |-> "idle"]
    /\ local = [h \in Handlers |-> None]
    /\ ret = [h \in Handlers |-> None]
    /\ log = <<>>

\* drift.py 390 and 523: row = db.scalars(drift_stmt).first(), the psi map of
\* the row as this Session read it, None when there was no row
drift_select(tbl, key, day) ==
    IF DriftRowIndex(tbl, key, day) = 0 THEN None ELSE Some(StoredPsi(tbl, key, day))

\* drift.py 391-403 and 524-533: the map the handler puts in the row it
\* loaded (seen), or in the row it creates
drift_row_psi(req, seen, results) ==
    IF seen = None THEN results
    ELSE IF req.op = "compute" THEN MapSet(seen[1], req.feature, results[req.feature])
    ELSE drift_all_store(seen[1], results, req.overwrite)

\* drift.py 404 and 534: db.commit() flushes the INSERT of the row created
\* when none was seen, else the UPDATE of the psi column of the row loaded
drift_commit(tbl, s, key, day, seen, psi_map) ==
    IF seen = None
    THEN IF uq_daily_drift(tbl, DailyDrift(key, day, psi_map))
         THEN [exc |-> IntegrityError, sess |-> Session_flush_failed(s), daily_drift |-> tbl]
         ELSE [exc |-> NoExc, sess |-> Session_committed(s),
               daily_drift |-> Append(tbl, DailyDrift(key, day, psi_map))]
    ELSE [exc |-> NoExc, sess |-> Session_committed(s),
          daily_drift |-> [tbl EXCEPT ![DriftRowIndex(tbl, key, day)].psi = psi_map]]

\* the results a call computed before its upsert, r being what the call
\* returns when nothing else runs
drift_results(req, r) ==
    IF req.op = "compute" THEN MapSet(EmptyMap, req.feature, r.out[1].payload)
    ELSE r.out[1].psi

\* the handler has computed its results and loaded the DailyDrift row
DriftSelected(h, req, r) ==
    /\ pc[h] = "idle"
    /\ IF r.exc # NoExc
       THEN /\ pc' = [pc EXCEPT ![h] = "done"]
            /\ local' = [local EXCEPT ![h] = Some([req |-> req, seen |-> None,
                                                  results |-> EmptyMap])]
            /\ ret' = [ret EXCEPT ![h] = Some([exc |-> r.exc])]
       ELSE /\ pc' = [pc EXCEPT ![h] = "commit"]
            /\ local' = [local EXCEPT ![h] =
                            Some([req |-> req,
                                  seen |-> drift_select(daily_drift, K1, DriftDay),
                                  results |-> drift_results(req, r)])]
            /\ UNCHANGED ret
    /\ UNCHANGED <<tables, sess, log>>

\* drift.py 305-390 and 417-523: up to the SELECT of the DailyDrift row
DriftSelect(h) ==
    \E req \in ConcurrentRequests :
        DriftSelected(h, req,
            IF req.op = "compute"
            THEN compute_daily_drift(DB, sess[h], K1, DriftDay, req.feature, "UTC", 1)
            ELSE compute_daily_drift_all(DB, sess[h], K1, DriftDay, "UTC", 1, req.overwrite))

DriftCommitted(h, up) ==
    /\ daily_drift' = up.daily_drift
    /\ sess' = [sess EXCEPT ![h] = up.sess]
    /\ ret' = [ret EXCEPT ![h] = Some([exc |-> up.exc])]
    /\ pc' = [pc EXCEPT ![h] = "done"]
    /\ UNCHANGED <<events, baselines, daily_metrics, alerts, local, log>>

\* drift.py 391-404 and 524-534: the row is created or changed and committed
DriftCommit(h) ==
    /\ pc[h] = "commit"
    /\ DriftCommitted(h,
           drift_commit(daily_drift, sess[h], K1, DriftDay, local[h][1].seen,
                        drift_row_psi(local[h][1].req, local[h][1].seen,
                                      local[h][1].results)))

NextConcurrent ==
    \E h \in Handlers :
        \/ DriftSelect(h)
        \/ DriftCommit(h)

SpecConcurrent == InitConcurrent /\ [][NextConcurrent]_vars

\* the DailyDrift rows of (key, day)
DriftRowsFor(key, day) ==
    SelectSeq(daily_drift, LAMBDA r : key_of(r) = key /\ r.day = day)

\* C12: of the drift computations running concurrently for one (key, day)
\* none fails with the unique-constraint IntegrityError, the stored psi map
\* holds the results of every computation that has returned, and exactly one
\* DailyDrift row exists for (key, day).
C12_ConcurrentDriftLosesNothing ==
    \A h \in Handlers :
        (pc[h] = "done" /\ local[h][1].results # EmptyMap) =>
            /\ ret[h][1].exc = NoExc
            /\ Len(DriftRowsFor(K1, DriftDay)) = 1
            /\ \A f \in DOMAIN local[h][1].results :
                  /\ f \in DOMAIN StoredPsi(daily_drift, K1, DriftDay)
                  /\ StoredPsi(daily_drift, K1, DriftDay)[f] = local[h][1].results[f]


-----------------------------------------------------------------------------
(* Day windows: metrics and drift computed for the days around the change  *)
(* of UTC offset of America/Vancouver                                      *)

\* the hours (UTC) at and next to the local midnights of days 2 and 3
WindowHours == {47, 48, 55, 56, 71, 72, 78, 79, 80}

\* the days a computation is asked for
WindowDays == 1..3

\* the baseline period, then at most MaxRuns single events with numeric f
WindowStores(key) ==
    {History(key) \o d :
        d \in SeqsUpTo({Event(key, t, [f |-> IntV(0)], 1) : t \in WindowHours}, MaxRuns)}

InitDayWindow ==
    /\ events \in WindowStores(K1)
    /\ baselines = <<Captured(K1, "f", 2, 50)>>
    /\ daily_metrics = <<>>
    /\ daily_drift = <<>>
    /\ alerts = <<>>
    /\ sess = [p \in {Api} |-> SessionLocal]
    /\ pc = [p \in {Api} |-> "idle"]
    /\ local = [p \in {Api} |-> [calls |-> 0]]
    /\ ret = [p \in {Api} |-> None]
    /\ log = <<>>

\* a computation for (day, tz) has returned r, n being the number of events
\* it reports
DayComputed(op, day, tz, r, n) ==
    /\ local[Api].calls < MaxCalls
    /\ local' = [local EXCEPT ![Api].calls = @ + 1]
    /\ ret' = [ret EXCEPT ![Api] = Some([op |-> op, day |-> day, tz |-> tz, exc |-> r.exc,
                                        n |-> n])]
    /\ UNCHANGED <<events, baselines, alerts, sess, pc, log>>

MetricsComputed(day, tz, r) ==
    /\ DayComputed("metrics", day, tz, r, IF r.exc = NoExc THEN r.out[1].n_events ELSE 0)
    /\ daily_metrics' = r.daily_metrics
    /\ UNCHANGED daily_drift

\* compute_daily_metrics for a day and a time zone
MetricsForDay ==
    \E day \in WindowDays, tz \in TZs :
        MetricsComputed(day, tz, compute_daily_metrics(DB, SessionLocal, K1, day, tz, TRUE))

DriftComputed(day, tz, r) ==
    /\ DayComputed("drift", day, tz, r, IF r.exc = NoExc THEN r.out[1].psi["f"].n ELSE 0)
    /\ daily_drift' = r.daily_drift
    /\ UNCHANGED daily_metrics

\* compute_daily_drift_all for a day and a time zone
DriftForDay ==
    \E day \in WindowDays, tz \in TZs :
        DriftComputed(day, tz, compute_daily_drift_all(DB, SessionLocal, K1, day, tz, 1, TRUE))

NextDayWindow == MetricsForDay \/ DriftForDay

SpecDayWindow == InitDayWindow /\ [][NextDayWindow]_vars

\* the UTC instant of local midnight of day in tz
MidnightUTC(day, tz) == day * HoursPerDay - utcoffset(tz, day * HoursPerDay)

\* the number of stored events of the key with from <= timestamp < to
CountBetween(key, from, to) ==
    RunLen(SelectSeq(events, LAMBDA e : key_of(e) = key /\ from <= e.timestamp
                                        /\ e.timestamp < to))

\* the last computation returned normally
DayDone == ret[Api] # None /\ ret[Api][1].exc = NoExc

IsDriftAlertOf(tbl, res, threshold) ==
    /\ tbl[Len(tbl)].rule = "drift"
    /\ tbl[Len(tbl)].value = res.max_psi
    /\ tbl[Len(tbl)].severity = classify_severity(res.max_psi)
    /\ tbl[Len(tbl)].threshold = threshold
    /\ <<tbl[Len(tbl)].project_id, tbl[Len(tbl)].model_id, tbl[Len(tbl)].endpoint>>
           = <<K1.project_id, K1.model_id, K1.endpoint>>
    /\ tbl[Len(tbl)].day = DriftDay

\* C14: a successful compute_all calls create_alert_once iff alert is set and
\* max_psi >= threshold (equality included); the alert it creates has rule
\* "drift", value max_psi and severity classify_severity(max_psi); with alert
\* unset the alert table is unchanged and alert_created is null, with max_psi
\* below the threshold the table is unchanged and alert_created is false.
C14_AlertIffAtOrAboveThreshold ==
    [][(ret'[Api] # None /\ ret'[Api][1].resp.op = "compute_all"
            /\ ret'[Api][1].resp.status = 200) =>
        LET req == ret'[Api][1].req
            res == ret'[Api][1].resp.out[1]
            fields == ret'[Api][1].fields
        IN  /\ (req.alert /\ res.max_psi >= req.threshold) =>
                  /\ fields.alert_created = Some(DriftAlerts(alerts) = <<>>)
                  /\ IF DriftAlerts(alerts) = <<>>
                     THEN /\ Len(alerts') = Len(alerts) + 1
                          /\ SubSeq(alerts', 1, Len(alerts)) = alerts
                          /\ IsDriftAlertOf(alerts', res, req.threshold)
                     ELSE alerts' = alerts
            /\ ~req.alert => (alerts' = alerts /\ fields.alert_created = None)
            /\ (req.alert /\ res.max_psi < req.threshold) =>
                  (alerts' = alerts /\ fields.alert_created = Some(FALSE))]_vars

\* C14 witness: a compute_all whose max_psi equals its positive threshold has
\* created the alert
C14_Witness ==
    /\ Succeeded("compute_all")
    /\ Last.req.alert
    /\ Last.req.threshold > 0
    /\ Last.resp.out[1].max_psi = Last.req.threshold
    /\ Last.fields.alert_created = Some(TRUE)
    /\ Len(DriftAlerts(alerts)) = 1


\* C15: when compute_all has computed drift with alert set and the webhook
\* notifier fails, the response is still a success; when the alert was due
\* (max_psi >= threshold) the drift result and the alert row are stored and
\* the response carries slack_alert_sent = false with a note.
C15_SlackFailureKeepsRequest ==
    [][(/\ ret'[Api] # None
        /\ ret'[Api][1].resp.op = "compute_all"
        /\ ret'[Api][1].resp.exc # ValueError
        /\ ret'[Api][1].req.alert
        /\ send_slack_message(ret'[Api][1].req.settings).exc # NoExc) =>
            /\ ret'[Api][1].resp.status = 200
            /\ ret'[Api][1].resp.out[1].max_psi >= ret'[Api][1].req.threshold =>
                  /\ \A f \in DOMAIN ret'[Api][1].resp.out[1].psi :
                        /\ f \in DOMAIN StoredPsi(daily_drift', K1, DriftDay)
                        /\ StoredPsi(daily_drift', K1, DriftDay)[f]
                               = ret'[Api][1].resp.out[1].psi[f]
                  /\ Len(DriftAlerts(alerts')) = 1
                  /\ ret'[Api][1].fields.slack_alert_sent = Some(FALSE)
                  /\ ret'[Api][1].fields.slack_note # <<>>]_vars

\* C15 witness: the webhook answered 500 to a compute_all that created the
\* alert
C15_Witness ==
    /\ Succeeded("compute_all")
    /\ Last.req.alert
    /\ Last.req.settings.slack_enabled
    /\ Last.req.settings.http = 500
    /\ Last.fields.alert_created = Some(TRUE)
    /\ Last.fields.slack_alert_sent = Some(FALSE)
    /\ Len(DriftAlerts(alerts)) = 1


-----------------------------------------------------------------------------
(* The write endpoints behind require_api_key: api/events.py ingest_events, *)
(* api/metrics.py compute, api/drift.py baseline_capture, compute_one,      *)
(* compute_all.  The requests are well-formed: FastAPI has validated them.  *)

\* core/config.py enable_auth, api_key (api_key_header names the header)
AuthSettings(enable_auth, api_key) == [enable_auth |-> enable_auth, api_key |-> api_key]

\* request.headers.get(settings.api_key_header): absent, the secret, another
\* key, an empty value
KeyHeaders == {None, Some("demo-key"), Some("other-key"), Some("")}

\* require_api_key accepting any key that is present
require_api_key_present(settings, key) ==
    IF ~settings.enable_auth THEN FALSE
    ELSE key = None \/ key[1] = ""

\* api/events.py require_api_key: TRUE when it raises the 401
require_api_key(settings, key) ==
    IF ~settings.enable_auth THEN FALSE
    ELSE key = None \/ key[1] = "" \/ key[1] # settings.api_key

\* what a handler leaves: the response status and detail, the tables, and
\* for ingest_events the inserted count
Handled(status, detail, db, inserted) ==
    [status |-> status, detail |-> detail, db |-> db, inserted |-> inserted]

\* HTTPException(401, "Invalid API key") raised before the handler's body
Unauthorized(db) == Handled(401, <<"Invalid API key">>, db, 0)

\* api/events.py EventIn (latency_ms, y_pred, y_proba left unset)
EventIn(key, timestamp, features) ==
    [project_id |-> key.project_id, model_id |-> key.model_id, endpoint |-> key.endpoint,
     timestamp |-> timestamp, features |-> features]

\* EventIn.normalized_timestamp: now when unset, a naive time is UTC
normalized_timestamp(e, now) ==
    IF e.timestamp = None THEN now ELSE _parse_iso_dt(e.timestamp[1])

\* events.py 55: payload if isinstance(payload, list) else [payload]
payload_events(payload) == IF payload.is_list THEN payload.items ELSE <<payload.items[1]>>

\* events.py 57-73: the Event rows of a batch
ingest_rows(batch, now) ==
    [i \in DOMAIN batch |-> Event(key_of(batch[i]), normalized_timestamp(batch[i], now),
                                  batch[i].features, 1)]

\* ingestion that stores the events preceding the first one it rejects
ingest_batch_partial(db, batch, now) ==
    IF \E i \in DOMAIN batch : DOMAIN batch[i].features = {}
    THEN LET bad == Min({i \in DOMAIN batch : DOMAIN batch[i].features = {}})
         IN  Handled(400, <<"features must be a non-empty object">>,
                     [db EXCEPT !.events = @ \o ingest_rows(SubSeq(batch, 1, bad - 1), now)],
                     0)
    ELSE Handled(200, <<>>, [db EXCEPT !.events = @ \o ingest_rows(batch, now)], Len(batch))

\* events.py 57-77: the loop that rejects an event with empty features before
\* anything is added, then add_all, commit, IngestResponse
ingest_batch(db, batch, now) ==
    IF \E i \in DOMAIN batch : DOMAIN batch[i].features = {}
    THEN Handled(400, <<"features must be a non-empty object">>, db, 0)
    ELSE Handled(200, <<>>, [db EXCEPT !.events = @ \o ingest_rows(batch, now)], Len(batch))

\* api/events.py ingest_events
ingest_events(db, settings, key, payload, now) ==
    IF require_api_key(settings, key) THEN Unauthorized(db)
    ELSE ingest_batch(db, payload_events(payload), now)

\* api/metrics.py 27-36: the service's result r returned; it has no except
\* clause, an exception is a 500
metrics_compute_done(db, r) ==
    IF r.exc # NoExc THEN Handled(500, <<r.exc>>, db, 0)
    ELSE Handled(200, <<>>, [db EXCEPT !.daily_metrics = r.daily_metrics], 0)

\* api/metrics.py compute
metrics_compute(db, settings, key, k, day, tz, overwrite) ==
    IF require_api_key(settings, key) THEN Unauthorized(db)
    ELSE metrics_compute_done(db, compute_daily_metrics(db, SessionLocal, k, day, tz,
                                                        overwrite))

\* api/drift.py 47-75: the service's result r, any exception a 400
baseline_capture_done(db, r) ==
    IF r.exc # NoExc THEN Handled(400, r.msg, db, 0)
    ELSE Handled(200, <<>>, [db EXCEPT !.baselines = r.baselines], 0)

\* api/drift.py baseline_capture
baseline_capture(db, settings, key, k, feature, c, overwrite) ==
    IF require_api_key(settings, key) THEN Unauthorized(db)
    ELSE baseline_capture_done(db, capture_baseline(db, SessionLocal, k, feature, c[1], c[3],
                                                    c[2], overwrite, c[4]))

\* api/drift.py 91-103 and 122-197: what the drift handlers leave, h being
\* the handler's outcome and alerts_after the alert table
drift_done(db, h, alerts_after) ==
    Handled(h.resp.status, h.resp.msg,
            [db EXCEPT !.daily_drift = h.daily_drift, !.alerts = alerts_after], 0)

\* api/drift.py compute_one
compute_one(db, settings, key, k, day, feature, tz, min_samples) ==
    IF require_api_key(settings, key) THEN Unauthorized(db)
    ELSE drift_done(db, compute_one_respond(k, day,
                            compute_daily_drift(db, SessionLocal, k, day, feature, tz,
                                                min_samples)),
                    db.alerts)

compute_all_done(db, h) == drift_done(db, h, h.alerts)

\* api/drift.py compute_all
compute_all(db, settings, key, k, day, tz, min_samples, overwrite, alert, threshold, cfg) ==
    IF require_api_key(settings, key) THEN Unauthorized(db)
    ELSE compute_all_done(db,
             compute_all_respond(db, k, day, alert, threshold, cfg,
                 compute_daily_drift_all(db, SessionLocal, k, day, tz, min_samples,
                                         overwrite)))

\* the events a client posts: one without timestamp, one with a timestamp
\* carrying an offset, one with an empty features object
PostedEvents ==
    {EventIn(K1, None, [f |-> IntV(0)]),
     EventIn(K2, Some(Iso(30, Some(0 - 8))), [g |-> StrV("a")]),
     EventIn(K1, None, <<>>)}

\* the request bodies: a single event or a list of at most MaxBatch events
Payloads ==
    {[is_list |-> FALSE, items |-> <<e>>] : e \in PostedEvents}
        \cup {[is_list |-> TRUE, items |-> b] : b \in SeqsUpTo(PostedEvents, MaxBatch)}

\* datetime.now(timezone.utc) while the requests are served
Now == 40

InitApi ==
    /\ events \in BaselineStores(K1)
    /\ baselines \in {<<>>, <<Captured(K1, "f", 2, 50), Captured(K1, "g", 2, 50)>>}
    /\ daily_metrics = <<>>
    /\ daily_drift = <<>>
    /\ alerts = <<>>
    /\ sess = [p \in {Api} |-> SessionLocal]
    /\ pc = [p \in {Api} |-> "idle"]
    /\ local \in {[p \in {Api} |-> [calls |-> 0, settings |-> AuthSettings(a, "demo-key")]] :
                     a \in BOOLEAN}
    /\ ret = [p \in {Api} |-> None]
    /\ log = <<>>

\* a handler has answered request req with r
ApiDone(op, key, req, r) ==
    /\ local[Api].calls < MaxCalls
    /\ local' = [local EXCEPT ![Api].calls = @ + 1]
    /\ events' = r.db.events
    /\ baselines' = r.db.baselines
    /\ daily_metrics' = r.db.daily_metrics
    /\ daily_drift' = r.db.daily_drift
    /\ alerts' = r.db.alerts
    /\ ret' = [ret EXCEPT ![Api] = Some([op |-> op, key |-> key, req |-> req,
                                        status |-> r.status, detail |-> r.detail,
                                        inserted |-> r.inserted])]
    /\ UNCHANGED <<sess, pc, log>>

IngestEvents ==
    \E key \in KeyHeaders, payload \in Payloads :
        ApiDone("ingest_events", key, payload,
                ingest_events(DB, local[Api].settings, key, payload, Now))

MetricsCompute ==
    \E key \in KeyHeaders, overwrite \in BOOLEAN :
        ApiDone("metrics_compute", key, [overwrite |-> overwrite],
                metrics_compute(DB, local[Api].settings, key, K1, DriftDay, "UTC", overwrite))

\* the (window, tz, n_bins, top_k_categories) of the capture requests
ApiCaptureParams == {<<WindowDay0, "UTC", 3, 2>>, <<WindowDay0, "UTC", 2, 50>>}

BaselineCaptureApi ==
    \E key \in KeyHeaders, feature \in {"f", "g"}, c \in ApiCaptureParams,
       overwrite \in BOOLEAN :
        ApiDone("baseline_capture", key,
                [feature |-> feature, overwrite |-> overwrite, n_bins |-> c[3],
                 top_k_categories |-> c[4]],
                baseline_capture(DB, local[Api].settings, key, K1, feature, c, overwrite))

ComputeOneApi ==
    \E key \in KeyHeaders, feature \in {"f", "g"} :
        ApiDone("compute_one", key, [feature |-> feature],
                compute_one(DB, local[Api].settings, key, K1, DriftDay, feature, "UTC", 1))

ComputeAllApi ==
    \E key \in KeyHeaders, overwrite \in BOOLEAN :
        ApiDone("compute_all", key, [overwrite |-> overwrite],
                compute_all(DB, local[Api].settings, key, K1, DriftDay, "UTC", 1, overwrite,
                            TRUE, 0, SlackOff))

NextApi ==
    \/ IngestEvents
    \/ MetricsCompute
    \/ BaselineCaptureApi
    \/ ComputeOneApi
    \/ ComputeAllApi

SpecApi == InitApi /\ [][NextApi]_vars

\* the answer to the last request
Answer == ret[Api][1]

\* C16: with auth enabled a request to a write endpoint whose key header is
\* missing or differs from settings.api_key is answered 401 and leaves every
\* table as it was; with auth disabled no request is answered 401.
C16_BadKeyRejectedBeforeAnyStore ==
    [][(ret'[Api] # None /\ local'[Api].calls # local[Api].calls) =>
        /\ (local[Api].settings.enable_auth
                /\ ret'[Api][1].key # Some(local[Api].settings.api_key)) =>
              /\ ret'[Api][1].status = 401
              /\ tables' = tables
        /\ ~local[Api].settings.enable_auth => ret'[Api][1].status # 401]_vars

\* C16 witness: auth is enabled, a request with the secret has stored events,
\* and a compute_all with another key has then been answered 401
C16_Witness ==
    /\ ret[Api] # None
    /\ local[Api].settings.enable_auth
    /\ Answer.op = "compute_all"
    /\ Answer.key = Some("other-key")
    /\ Answer.status = 401
    /\ \E i \in DOMAIN events : events[i].timestamp = Now
    /\ daily_drift = <<>>


\* C17: an ingest request that passed the key check and carries an event
\* with an empty features object is answered 400 and stores no event of the
\* batch; otherwise every event of the batch is appended to the event table
\* in the caller's order and the response's inserted is the batch size.
C17_IngestAllOrNothing ==
    [][(/\ ret'[Api] # None
        /\ local'[Api].calls # local[Api].calls
        /\ ret'[Api][1].op = "ingest_events"
        /\ ret'[Api][1].status # 401) =>
        LET batch == payload_events(ret'[Api][1].req)
        IN  IF \E i \in DOMAIN batch : DOMAIN batch[i].features = {}
            THEN /\ ret'[Api][1].status = 400
                 /\ tables' = tables
            ELSE /\ ret'[Api][1].status = 200
                 /\ ret'[Api][1].inserted = Len(batch)
                 /\ Len(events') = Len(events) + Len(batch)
                 /\ SubSeq(events', 1, Len(events)) = events
                 /\ \A i \in DOMAIN batch :
                       /\ key_of(events'[Len(events) + i]) = key_of(batch[i])
                       /\ events'[Len(events) + i].features = batch[i].features
                       /\ events'[Len(events) + i].n = 1
                 /\ <<baselines', daily_metrics', daily_drift', alerts'>>
                        = <<baselines, daily_metrics, daily_drift, alerts>>]_vars

\* C17 witness: a list whose second event has empty features, after a valid
\* first one, has been answered 400 while the event table holds two rows
\* more than the baseline period
C17_Witness ==
    /\ ret[Api] # None
    /\ Answer.op = "ingest_events"
    /\ Answer.status = 400
    /\ Answer.req.is_list
    /\ Len(Answer.req.items) = 2
    /\ DOMAIN Answer.req.items[1].features # {}
    /\ DOMAIN Answer.req.items[2].features = {}
    /\ Len(events) = Len(History(K1)) + 2


-----------------------------------------------------------------------------
(* _hist_probs and _freq_probs applied to bounded samples *)

\* the numbers of a sample: below, at, between and above the edges
SampleNumbers == {0 - Unit, 0, Unit \div 2, (2 * Unit) \div 3, Unit, 2 * Unit, 3 * Unit}

\* the bin edges _make_bins gives for values from 0 to 2 and for the single
\* value 1
SampleEdges ==
    {_make_bins(<<Run(0, 1), Run(2 * Unit, 1)>>, n_bins) : n_bins \in 1..3}
        \cup {_make_bins(<<Run(Unit, 1)>>, 2)}

SampleStrings == {"a", "b", "z", OtherCat}

SampleCategories ==
    {<<>>, <<"a">>, <<"b", "a">>, <<"a", OtherCat>>, <<OtherCat, "b">>, <<"a", "b", "a">>}

\* probabilities in parts per million, from zero to one
SampleProbs == {0, 250000, 400000, 600000, 1000000}

\* the vectors of one to MaxLen probabilities
ProbVectors == SeqsUpTo(SampleProbs, MaxLen) \ {<<>>}

\* samples of at most MaxLen runs of one or two equal values
Samples(S) == SeqsUpTo({Run(v, n) : v \in S, n \in 1..2}, MaxLen)

InitProbs ==
    /\ events = <<>>
    /\ baselines = <<>>
    /\ daily_metrics = <<>>
    /\ daily_drift = <<>>
    /\ alerts = <<>>
    /\ sess = [p \in {Api} |-> SessionLocal]
    /\ pc = [p \in {Api} |-> "idle"]
    /\ local \in {[p \in {Api} |-> [fn |-> "_hist_probs", values |-> v, bin_edges |-> e]] :
                     v \in Samples(SampleNumbers), e \in SampleEdges}
                 \cup {[p \in {Api} |-> [fn |-> "_freq_probs", values |-> v, categories |-> c,
                                         other_bucket |-> o]] :
                          v \in Samples(SampleStrings), c \in SampleCategories, o \in BOOLEAN}
                 \cup {[p \in {Api} |-> [fn |-> "psi", expected |-> e, actual |-> a]] :
                          e \in ProbVectors, a \in ProbVectors}
    /\ ret = [p \in {Api} |-> None]
    /\ log = <<>>

Returned(r) ==
    /\ pc[Api] = "idle"
    /\ pc' = [pc EXCEPT ![Api] = "done"]
    /\ ret' = [ret EXCEPT ![Api] = Some(r)]
    /\ UNCHANGED <<tables, sess, local, log>>

\* drift.py _hist_probs on the sample and the edges
HistProbs ==
    /\ local[Api].fn = "_hist_probs"
    /\ Returned([counts |-> HistCounts(local[Api].values, local[Api].bin_edges),
                 probs |-> _hist_probs(local[Api].values, local[Api].bin_edges)])

\* drift.py _freq_probs on the sample and the category list
FreqProbs ==
    /\ local[Api].fn = "_freq_probs"
    /\ Returned(_freq_probs(local[Api].values, local[Api].categories,
                            local[Api].other_bucket))

\* drift.py psi on two vectors: the value, or the ValueError of a length
\* mismatch
PsiCall ==
    /\ local[Api].fn = "psi"
    /\ Returned(IF psi_raises(local[Api].expected, local[Api].actual)
                THEN [exc |-> ValueError, psi |-> 0]
                ELSE [exc |-> NoExc, psi |-> psi(local[Api].expected, local[Api].actual)])

NextProbs == HistProbs \/ FreqProbs \/ PsiCall

SpecProbs == InitProbs /\ [][NextProbs]_vars

\* the number of sample values that satisfy the predicate given as the set
\* of values it accepts
CountIn(values, S) == RunLen(SelectSeq(values, LAMBDA r : r.v \in S))

\* C18: _hist_probs counts every sample value in exactly one bin: bin i
\* before the last takes e[i] <= x < e[i+1], the last bin e[n-1] <= x <= e[n],
\* a value below e[0] goes to the first bin and a value above e[n] to the
\* last; the counts sum to the sample size, the probabilities are
\* counts/total, and an empty sample gives the zero vector of length n_bins.
C18_HistCountsEveryValueOnce ==
    (pc[Api] = "done" /\ local[Api].fn = "_hist_probs") =>
        LET e == local[Api].bin_edges
            n_bins == Len(e) - 1
            vals == local[Api].values
            r == ret[Api][1]
            takes(i) == {x \in SampleNumbers :
                            \/ i < n_bins /\ e[i] <= x /\ x < e[i + 1]
                            \/ i = n_bins /\ e[i] <= x /\ x <= e[i + 1]
                            \/ i = 1 /\ x < e[1]
                            \/ i = n_bins /\ x > e[n_bins + 1]}
        IN  /\ Len(r.counts) = n_bins /\ Len(r.probs) = n_bins
            /\ \A i \in 1..n_bins : r.counts[i] = CountIn(vals, takes(i))
            /\ \A i, j \in 1..n_bins : i # j => takes(i) \cap takes(j) = {}
            /\ SeqSum(r.counts) = RunLen(vals)
            /\ \A i \in 1..n_bins :
                  r.probs[i] = IF vals = <<>> THEN 0
                               ELSE (r.counts[i] * Ppm) \div RunLen(vals)
            /\ vals # <<>> => (SeqSum(r.probs) <= Ppm /\ SeqSum(r.probs) > Ppm - n_bins)

\* C18 witness: a sample with a value below the first edge, one above the
\* last edge and one on an inner edge has been binned into three bins
C18_Witness ==
    /\ pc[Api] = "done" /\ local[Api].fn = "_hist_probs"
    /\ Len(local[Api].bin_edges) = 4
    /\ {local[Api].values[i].v : i \in DOMAIN local[Api].values}
           = {0 - Unit, 3 * Unit, local[Api].bin_edges[2]}
    /\ ret[Api][1].counts[1] >= 1 /\ ret[Api][1].counts[3] >= 1

\* C19: _freq_probs returns the category list, extended by "__OTHER__" when
\* other_bucket is set and the list lacks it; a sample string is counted under
\* its own category when it is in that list, under "__OTHER__" when it is not
\* and "__OTHER__" is in the list, and dropped otherwise; the probabilities
\* are aligned with the returned list, are counts/total, and are all zero
\* when nothing was counted.
C19_FreqCountsOwnCategoryOrOther ==
    (pc[Api] = "done" /\ local[Api].fn = "_freq_probs") =>
        LET given == local[Api].categories
            vals == local[Api].values
            r == ret[Api][1]
            listed == Range(r.cats)
            counted(c) == CountIn(vals, {c})
                              + IF c = OtherCat THEN CountIn(vals, SampleStrings \ listed)
                                ELSE 0
            total == CountIn(vals, listed)
                         + IF OtherCat \in listed THEN CountIn(vals, SampleStrings \ listed)
                           ELSE 0
        IN  /\ r.cats = IF local[Api].other_bucket /\ OtherCat \notin Range(given)
                        THEN Append(given, OtherCat) ELSE given
            /\ Len(r.probs) = Len(r.cats)
            /\ \A i \in DOMAIN r.cats :
                  r.probs[i] = IF total = 0 THEN 0 ELSE (counted(r.cats[i]) * Ppm) \div total

\* C19 witness: a sample with a listed string, an unlisted string and the
\* string "__OTHER__" itself, counted over a list that had to be extended
C19_Witness ==
    /\ pc[Api] = "done" /\ local[Api].fn = "_freq_probs"
    /\ local[Api].categories = <<"b", "a">>
    /\ local[Api].other_bucket
    /\ {local[Api].values[i].v : i \in DOMAIN local[Api].values} = {"a", "z", OtherCat}
    /\ ret[Api][1].cats = <<"b", "a", OtherCat>>
    /\ ret[Api][1].probs[1] = 0 /\ ret[Api][1].probs[3] > ret[Api][1].probs[2]


\* the probability vector compute_daily_drift builds for baseline row b from
\* the events of the drift day (drift.py 349-373)
ActualProbs(b) ==
    LET base == _normalize_baseline(b.baseline_edges, b.baseline_probs)
        evts == EventsIn(events, key_of(b), _day_range_utc(DriftDay, "UTC")[1],
                         _day_range_utc(DriftDay, "UTC")[2])
    IN  IF base.type = "numeric"
        THEN _hist_probs(NumsOf(NumberValues(evts, b.feature)), base.bin_edges)
        ELSE _freq_probs(StrsOf(CategoricalValues(evts, b.feature)), base.categories,
                         base.other_bucket).probs

\* baseline row b has the dimension of its definition
HasDefinitionDimension(b) ==
    IF b.feature_type = "numeric"
    THEN Len(b.baseline_probs) = Len(b.baseline_edges.bin_edges) - 1
    ELSE /\ Len(b.baseline_probs) = Len(b.baseline_edges.categories)
         /\ InSeq(OtherCat, b.baseline_edges.categories)

\* C20: a baseline stored by capture_baseline has baseline_probs of its
\* definition's dimension (n_bins = |bin_edges| - 1 for a numeric one;
\* |categories|, "__OTHER__" included and at most top_k_categories + 1, for a
\* categorical one); the actual probabilities computed from the stored
\* definition have the same length, and no drift request fails with psi's
\* length mismatch.
C20_BaselineAndActualDimensionsAgree ==
    /\ [](\A i \in DOMAIN baselines :
            /\ HasDefinitionDimension(baselines[i])
            /\ Len(ActualProbs(baselines[i])) = Len(baselines[i].baseline_probs)
            /\ ~psi_raises(baselines[i].baseline_probs, ActualProbs(baselines[i])))
    /\ [](ret[Api] # None =>
            ret[Api][1].detail # <<"expected and actual must have the same length">>)
    /\ [][(/\ ret'[Api] # None
           /\ local'[Api].calls # local[Api].calls
           /\ ret'[Api][1].op = "baseline_capture"
           /\ ret'[Api][1].status = 200) =>
            LET b == baselines'[Len(baselines')]
            IN  /\ b.feature = ret'[Api][1].req.feature
                /\ IF b.feature_type = "numeric"
                   THEN Len(b.baseline_probs) = ret'[Api][1].req.n_bins
                   ELSE Len(b.baseline_probs) <= ret'[Api][1].req.top_k_categories + 1]_vars

\* C20 witness: a categorical baseline captured with top_k_categories = 2
\* holds three probabilities, and a drift request for its feature has then
\* been answered 200
C20_Witness ==
    /\ ret[Api] # None
    /\ Answer.op = "compute_one"
    /\ Answer.status = 200
    /\ Answer.req.feature = "g"
    /\ \E i \in DOMAIN baselines :
          /\ baselines[i].feature = "g"
          /\ baselines[i].baseline_edges.categories = <<"a", "b", OtherCat>>
          /\ Len(baselines[i].baseline_probs) = 3


-----------------------------------------------------------------------------
(* Properties of capture_baseline's type dispatch and sample floors *)

\* the number of values of feature over evts whose JSON type is in types
CountOfTypes(evts, feature, types) ==
    RunLen(SelectSeq(FeatureValues(evts, feature), LAMBDA r : r.v.t \in types))

\* what the claim expects of a capture answered with r over the window's
\* events evts: the path, the floor, and the row stored on success
CaptureAsClassified(r, evts, may_succeed) ==
    LET num == CountOfTypes(evts, r.feature, {"int", "float"})
        cat == CountOfTypes(evts, r.feature, {"str"})
        numeric_path == num > 0 /\ num >= cat
        floor_met == IF numeric_path
                     THEN num >= Max({MinBaselineSamples, 2 * r.params[3]})
                     ELSE cat >= MinBaselineSamples
    IN  /\ (r.exc = NoExc) <=> (may_succeed /\ evts # <<>> /\ floor_met)
        /\ r.exc = NoExc =>
              /\ r.out[1].feature_type = IF numeric_path THEN "numeric" ELSE "categorical"
              /\ r.out[1].n_baseline = IF numeric_path THEN num ELSE cat
        /\ r.exc # NoExc => baselines' = baselines

\* C21 as stated: capture_baseline counts integers and reals (never booleans)
\* as numeric and strings as categorical, takes the numeric path iff
\* numeric_count >= categorical_count and numeric_count > 0, succeeds iff the
\* chosen path's count meets its floor, and a failure deletes and writes
\* nothing.
C21_SucceedsIffFloorMet ==
    [][(ret'[Api] # None /\ ~window_raises(ret'[Api][1].params[1])) =>
        CaptureAsClassified(ret'[Api][1],
            window_events(events, K1, ret'[Api][1].params[1], ret'[Api][1].params[2]),
            TRUE)]_vars

\* C21: as above, where a capture succeeds iff its window arguments are
\* valid, the window has events, the chosen path's count meets its floor,
\* and overwrite is set or the feature has no baseline yet; every failure
\* leaves the baselines as they were.
C21_SucceedsIffFloorMetAndStorable ==
    [][ret'[Api] # None =>
        IF window_raises(ret'[Api][1].params[1])
        THEN ret'[Api][1].exc # NoExc /\ baselines' = baselines
        ELSE CaptureAsClassified(ret'[Api][1],
                 window_events(events, K1, ret'[Api][1].params[1], ret'[Api][1].params[2]),
                 ret'[Api][1].overwrite \/ BaselinesFor(K1, ret'[Api][1].feature) = <<>>)]_vars

\* C21 witness: a capture with overwrite for a feature that has a baseline
\* has failed on an empty window and the baseline is still stored
C21_Witness ==
    /\ ret[Api] # None
    /\ ret[Api][1].exc = ValueError
    /\ ret[Api][1].overwrite
    /\ ret[Api][1].params[1] = WindowEmpty
    /\ BaselinesFor(K1, ret[Api][1].feature) # <<>>


\* psi values below, at and above the two thresholds of classify_severity
SeverityProbes == {0 - 1, 0, 99999, 100000, 100001, 249999, 250000, 250001, 9000000}

\* the rank of a severity
SeverityRank(sev) == CASE sev = "OK" -> 0 [] sev = "WARN" -> 1 [] sev = "ALERT" -> 2

\* C22: classify_severity is total and monotone: OK below 0.10, WARN from
\* 0.10 to below 0.25, ALERT from 0.25; the severity stored with every psi
\* entry, the max_severity compute_all returns and the severity of the drift
\* alert are classify_severity of the psi value they go with.
C22_SeverityIsTheLadderOfPsi ==
    /\ \A p \in SeverityProbes :
          classify_severity(p) = IF p < 100000 THEN "OK"
                                 ELSE IF p >= 250000 THEN "ALERT" ELSE "WARN"
    /\ \A p, q \in SeverityProbes :
          p <= q => SeverityRank(classify_severity(p)) <= SeverityRank(classify_severity(q))
    /\ \A i \in DOMAIN daily_drift : \A f \in DOMAIN daily_drift[i].psi :
          daily_drift[i].psi[f].severity = classify_severity(daily_drift[i].psi[f].psi)
    /\ Succeeded("compute_all") =>
          /\ Last.resp.out[1].max_severity = classify_severity(Last.resp.out[1].max_psi)
          /\ \A f \in DOMAIN Last.resp.out[1].psi :
                Last.resp.out[1].psi[f].severity = classify_severity(Last.resp.out[1].psi[f].psi)
    /\ Succeeded("compute") =>
          Last.resp.out[1].payload.severity = classify_severity(Last.resp.out[1].payload.psi)
    /\ \A i \in DOMAIN alerts :
          alerts[i].rule = "drift" => alerts[i].severity = classify_severity(alerts[i].value)

\* C22 witness: a compute_all with threshold 0 has stored an entry of
\* severity OK and created the drift alert with that severity
C22_Witness ==
    /\ Succeeded("compute_all")
    /\ Last.resp.out[1].max_severity = "OK"
    /\ \E f \in DOMAIN StoredPsi(daily_drift, K1, DriftDay) :
          /\ StoredPsi(daily_drift, K1, DriftDay)[f].severity = "OK"
          /\ StoredPsi(daily_drift, K1, DriftDay)[f].psi > 0
    /\ Len(alerts) = 1
    /\ alerts[1].severity = "OK"


\* max(float(x), eps) of every component
Smoothed(v) == [i \in DOMAIN v |-> IF v[i] > eps THEN v[i] ELSE eps]

\* C23: for two vectors of equal length psi returns a value >= 0, the value
\* of the vectors with every component raised to at least eps, and 0 when
\* the two vectors are equal.
C23_PsiNonNegativeZeroOnEqual ==
    (pc[Api] = "done" /\ local[Api].fn = "psi"
        /\ Len(local[Api].expected) = Len(local[Api].actual)) =>
        /\ ret[Api][1].exc = NoExc
        /\ ret[Api][1].psi >= 0
        /\ ret[Api][1].psi = psi(Smoothed(local[Api].expected), Smoothed(local[Api].actual))
        /\ local[Api].expected = local[Api].actual => ret[Api][1].psi = 0

\* C23 witness: psi of two different vectors of three components, one of
\* them zero, is positive
C23_Witness ==
    /\ pc[Api] = "done" /\ local[Api].fn = "psi"
    /\ Len(local[Api].expected) = 3 /\ Len(local[Api].actual) = 3
    /\ local[Api].actual[1] = 0 /\ local[Api].expected[1] > local[Api].expected[2]
    /\ local[Api].actual[3] < local[Api].expected[3]
    /\ ret[Api][1].psi > 0


-----------------------------------------------------------------------------
(* compute_daily_drift_all over the same events returned in two orders *)

\* a baseline period in which f and h take the same values
TieHistory(key) ==
    <<Event(key, 12, [f |-> IntV(0), h |-> IntV(0)], 12),
      Event(key, 12, [f |-> IntV(Unit), h |-> IntV(Unit)], 8)>>

\* the baselines capture_baseline writes for f and h over that period
TieBaselines(key) ==
    <<capture_baseline([HistoryDB(key) EXCEPT !.events = TieHistory(key)], SessionLocal, key,
                       "f", WindowDay0, 2, "UTC", TRUE, 50).out[1],
      capture_baseline([HistoryDB(key) EXCEPT !.events = TieHistory(key)], SessionLocal, key,
                       "h", WindowDay0, 2, "UTC", TRUE, 50).out[1]>>

\* the events of the drift day
OrderRuns(key) ==
    {Event(key, 36, [f |-> IntV(0), h |-> IntV(0)], 1),
     Event(key, 36, [f |-> IntV(Unit), h |-> IntV(Unit)], 1),
     Event(key, 36, [g |-> StrV("a")], 1),
     Event(key, 36, [f |-> IntV(0)], 1),
     Event(key, 36, [h |-> IntV(Unit), g |-> StrV("b")], 2)}

\* the orders in which a store may return the rows s
Reorderings(s) ==
    {[i \in DOMAIN s |-> s[p[i]]] :
        p \in {q \in [DOMAIN s -> DOMAIN s] : \A i, j \in DOMAIN s : q[i] = q[j] => i = j}}

InitOrder ==
    /\ \E d \in SeqsUpTo(OrderRuns(K1), MaxLen) :
          /\ events = TieHistory(K1) \o d
          /\ local \in {[p \in {Api} |-> [other |-> TieHistory(K1) \o o]] : o \in Reorderings(d)}
    /\ baselines = TieBaselines(K1)
    /\ daily_metrics = <<>>
    /\ daily_drift = <<>>
    /\ alerts = <<>>
    /\ sess = [p \in {Api} |-> SessionLocal]
    /\ pc = [p \in {Api} |-> "idle"]
    /\ ret = [p \in {Api} |-> None]
    /\ log = <<>>

\* the call has returned first over the events as stored and second over
\* the same events in the other order
DriftAllBothOrders(first, second) ==
    /\ pc[Api] = "idle"
    /\ pc' = [pc EXCEPT ![Api] = "done"]
    /\ daily_drift' = first.daily_drift
    /\ ret' = [ret EXCEPT ![Api] = Some([first |-> first, second |-> second])]
    /\ UNCHANGED <<events, baselines, daily_metrics, alerts, sess, local, log>>

\* compute_daily_drift_all for the drift day
DriftAllInOrder ==
    \E min_samples \in 1..MaxMinSamples :
        DriftAllBothOrders(
            compute_daily_drift_all(DB, SessionLocal, K1, DriftDay, "UTC", min_samples, TRUE),
            compute_daily_drift_all([DB EXCEPT !.events = local[Api].other], SessionLocal, K1,
                                    DriftDay, "UTC", min_samples, TRUE))

NextOrder == DriftAllInOrder

SpecOrder == InitOrder /\ [][NextOrder]_vars

\* C24: what compute_daily_drift_all stores and returns (psi map,
\* max_psi_feature, max_psi, missing_baseline, skipped_low_sample), and
\* whether and how it fails, is the same for every order in which the store
\* returns the day's events, also when two features tie for the largest psi.
C24_DriftAllIgnoresEventOrder ==
    ret[Api] # None =>
        /\ ret[Api][1].first.exc = ret[Api][1].second.exc
        /\ ret[Api][1].first.msg = ret[Api][1].second.msg
        /\ ret[Api][1].first.out = ret[Api][1].second.out
        /\ ret[Api][1].first.daily_drift = ret[Api][1].second.daily_drift

\* C24 witness: f and h tie for the largest psi, the two orders start with
\* different events, and max_psi_feature is f
C24_Witness ==
    /\ ret[Api] # None
    /\ ret[Api][1].first.exc = NoExc
    /\ events # local[Api].other
    /\ events[Len(TieHistory(K1)) + 1] # local[Api].other[Len(TieHistory(K1)) + 1]
    /\ {"f", "h"} \subseteq DOMAIN ret[Api][1].first.out[1].psi
    /\ ret[Api][1].first.out[1].psi["f"].psi = ret[Api][1].first.out[1].psi["h"].psi
    /\ ret[Api][1].first.out[1].max_psi_feature = "f"
    /\ ret[Api][1].first.out[1].missing_baseline = <<"g">>


-----------------------------------------------------------------------------
(* Two worker instances running run_once concurrently for the same day:    *)
(* each has its own Session and its own log; between a worker's DELETE or  *)
(* SELECT and its db.commit() the other worker may run.                    *)

Workers == {"worker1", "worker2"}

\* the DailyMetric row compute_daily_metrics builds from the day's events
metrics_row(db, key, day, tz) ==
    compute_daily_metrics([db EXCEPT !.daily_metrics = <<>>], SessionLocal, key, day, tz,
                          TRUE).out[1]

\* metrics.py 113-121: the rows the DELETE removes when this Session commits
metrics_delete(tbl, row, overwrite) ==
    IF overwrite THEN SelectSeq(tbl, LAMBDA m : metric_key(m) = metric_key(row)) ELSE <<>>

\* metrics.py 136-137: db.add(row) and db.commit() on the table as it is now,
\* seen being the rows the DELETE removed
metrics_insert(tbl, s, row, seen) ==
    metrics_commit([daily_metrics |-> tbl], s, row,
                   SelectSeq(tbl, LAMBDA m : ~(metric_key(m) = metric_key(row) /\ InSeq(m, seen))))

\* the stores and settings of the two instances: both models' baseline
\* periods, at most one run of day 1 for K1 and two events of day 1 for K2
InitWorkers ==
    /\ events \in WorkerStores \ {<<>>}
    /\ baselines \in WorkerBaselines
    /\ daily_metrics \in WorkerMetricRows
    /\ daily_drift = <<>>
    /\ alerts = <<>>
    /\ sess = [w \in Workers |-> SessionLocal]
    /\ pc = [w \in Workers |-> "idle"]
    /\ \E overwrite \in BOOLEAN :
          local = [w \in Workers |->
                      WorkerSettings("UTC", overwrite, 1) @@
                      [seen |-> <<>>, pending |-> <<>>, before |-> daily_metrics]]
    /\ ret = [w \in Workers |-> None]
    /\ log = [w \in Workers |-> <<>>]

\* worker.py 97-106: discover the keys
WorkersStart(w) ==
    /\ pc[w] = "idle"
    /\ log' = [log EXCEPT ![w] = Append(@, log_info("Discovered keys.", "", <<>>))]
    /\ pc' = [pc EXCEPT ![w] = "metrics"]
    /\ local' = [local EXCEPT ![w].keys = _discover_model_keys(DB),
                              ![w].projects = _discover_projects(DB),
                              ![w].i = 1]
    /\ UNCHANGED <<tables, sess, ret>>

\* the key worker w is at
KeyOf(w) == local[w].keys[local[w].i]

\* the local state of w when its loop moves on
Advanced(w) ==
    [local[w] EXCEPT !.i = IF local[w].i < Len(local[w].keys) THEN @ + 1 ELSE 1,
                     !.seen = <<>>, !.pending = <<>>]

\* the position of w when its loop moves on, after being the next loop
AdvancedPc(w, loop, after) ==
    IF local[w].i < Len(local[w].keys) THEN loop ELSE after

\* worker.py 109-136 and metrics.py 63-121: the events are read and the
\* DELETE is issued; a Session left inactive raises at once
WorkersMetricsDelete(w) ==
    /\ pc[w] = "metrics"
    /\ IF sess[w].state # "active"
       THEN /\ log' = [log EXCEPT ![w] = Append(@, log_exception("metrics failed", KeyOf(w),
                                                                 <<PendingRollbackError>>))]
            /\ local' = [local EXCEPT ![w] = Advanced(w)]
            /\ pc' = [pc EXCEPT ![w] = AdvancedPc(w, "metrics", "drift")]
       ELSE /\ local' = [local EXCEPT
                            ![w].pending = <<metrics_row(DB, KeyOf(w), local[w].day, local[w].tz)>>,
                            ![w].seen = metrics_delete(daily_metrics,
                                            metrics_row(DB, KeyOf(w), local[w].day, local[w].tz),
                                            local[w].overwrite)]
            /\ pc' = [pc EXCEPT ![w] = "metrics_commit"]
            /\ UNCHANGED log
    /\ UNCHANGED <<tables, sess, ret>>

\* worker.py 109-136 once db.commit() of compute_daily_metrics did r
WorkersMetricsCommitted(w, r) ==
    /\ pc[w] = "metrics_commit"
    /\ daily_metrics' = r.daily_metrics
    /\ sess' = [sess EXCEPT ![w] = r.sess]
    /\ log' = [log EXCEPT ![w] = Append(@, metrics_log(KeyOf(w), r))]
    /\ local' = [local EXCEPT ![w] = Advanced(w)]
    /\ pc' = [pc EXCEPT ![w] = AdvancedPc(w, "metrics", "drift")]
    /\ UNCHANGED <<events, baselines, daily_drift, alerts, ret>>

\* metrics.py 136-137: the insert and the commit
WorkersMetricsCommit(w) ==
    WorkersMetricsCommitted(w,
        metrics_insert(daily_metrics, sess[w], local[w].pending[1], local[w].seen))

\* worker.py 140-231 and drift.py 417-523 for one key, has being what
\* _has_any_baseline did and r what compute_daily_drift_all does up to its
\* SELECT of the DailyDrift row
WorkersDriftSelected(w, has, r) ==
    /\ pc[w] = "drift"
    /\ IF has.exc # NoExc \/ ~has.out \/ r.exc # NoExc
       THEN /\ log' = [log EXCEPT ![w] = Append(@,
                          IF has.exc # NoExc
                          THEN log_exception("drift baseline precheck failed", KeyOf(w),
                                             <<has.exc>>)
                          ELSE IF ~has.out
                          THEN log_info("drift skipped (no baselines)", KeyOf(w), <<>>)
                          ELSE drift_log(KeyOf(w), r))]
            /\ local' = [local EXCEPT ![w] = Advanced(w)]
            /\ pc' = [pc EXCEPT ![w] = AdvancedPc(w, "drift", "costs")]
       ELSE /\ local' = [local EXCEPT
                            ![w].pending = <<r.out[1].psi>>,
                            ![w].seen = drift_select(daily_drift, KeyOf(w), local[w].day)]
            /\ pc' = [pc EXCEPT ![w] = "drift_commit"]
            /\ UNCHANGED log
    /\ UNCHANGED <<tables, sess, ret>>

WorkersDriftSelect(w) ==
    WorkersDriftSelected(w, _has_any_baseline(DB, sess[w], KeyOf(w)),
        compute_daily_drift_all(DB, sess[w], KeyOf(w), local[w].day, local[w].tz,
                                local[w].drift_min_samples, local[w].overwrite))

\* worker.py 162-231 once db.commit() of compute_daily_drift_all did up
WorkersDriftCommitted(w, up) ==
    /\ pc[w] = "drift_commit"
    /\ daily_drift' = up.daily_drift
    /\ sess' = [sess EXCEPT ![w] = up.sess]
    /\ log' = [log EXCEPT ![w] = Append(@, drift_log(KeyOf(w), up @@ [msg |-> <<>>]))]
    /\ local' = [local EXCEPT ![w] = Advanced(w)]
    /\ pc' = [pc EXCEPT ![w] = AdvancedPc(w, "drift", "costs")]
    /\ UNCHANGED <<events, baselines, daily_metrics, alerts, ret>>

\* drift.py 524-534: the row is created or changed and committed
WorkersDriftCommit(w) ==
    WorkersDriftCommitted(w,
        drift_commit(daily_drift, sess[w], KeyOf(w), local[w].day, local[w].seen,
                     drift_row_psi([op |-> "compute_all", overwrite |-> local[w].overwrite],
                                   local[w].seen, local[w].pending[1])))

\* worker.py 234-259: the costs of the one project, then db.close()
WorkersCosts(w) ==
    /\ pc[w] = "costs"
    /\ \E aws_ok \in BOOLEAN :
          log' = [log EXCEPT ![w] = Append(@, costs_log(local[w].projects[1],
                                              pull_and_store_daily_costs(sess[w], aws_ok)))]
    /\ sess' = [sess EXCEPT ![w] = Session_close(@)]
    /\ pc' = [pc EXCEPT ![w] = "done"]
    /\ UNCHANGED <<tables, local, ret>>

NextWorkers ==
    \E w \in Workers :
        \/ WorkersStart(w)
        \/ WorkersMetricsDelete(w)
        \/ WorkersMetricsCommit(w)
        \/ WorkersDriftSelect(w)
        \/ WorkersDriftCommit(w)
        \/ WorkersCosts(w)

SpecWorkers == InitWorkers /\ [][NextWorkers]_vars

\* run_once's metrics loop by one instance alone
RECURSIVE run_once_metrics(_, _, _, _)
run_once_metrics(db, s, keys, c) ==
    IF keys = <<>> THEN [db |-> db, sess |-> s]
    ELSE run_once_metrics(
             [db EXCEPT !.daily_metrics =
                 compute_daily_metrics(db, s, Head(keys), c.day, c.tz, c.overwrite).daily_metrics],
             compute_daily_metrics(db, s, Head(keys), c.day, c.tz, c.overwrite).sess,
             Tail(keys), c)

\* run_once's drift loop by one instance alone
RECURSIVE run_once_drift(_, _, _, _)
run_once_drift(db, s, keys, c) ==
    IF keys = <<>> THEN [db |-> db, sess |-> s]
    ELSE IF _has_any_baseline(db, s, Head(keys)).exc # NoExc
            \/ ~_has_any_baseline(db, s, Head(keys)).out
    THEN run_once_drift(db, s, Tail(keys), c)
    ELSE run_once_drift(
             [db EXCEPT !.daily_drift =
                 compute_daily_drift_all(db, s, Head(keys), c.day, c.tz, c.drift_min_samples,
                                         c.overwrite).daily_drift],
             compute_daily_drift_all(db, s, Head(keys), c.day, c.tz, c.drift_min_samples,
                                     c.overwrite).sess,
             Tail(keys), c)

\* the stores after run_once by one instance alone, from the stores db
run_once(db, c) ==
    run_once_drift(run_once_metrics(db, SessionLocal, _discover_model_keys(db), c).db,
                   run_once_metrics(db, SessionLocal, _discover_model_keys(db), c).sess,
                   _discover_model_keys(db), c).db

\* the stores the two instances started from
StoresBefore ==
    [DB EXCEPT !.daily_metrics = local["worker1"].before, !.daily_drift = <<>>]

BothDone == \A w \in Workers : pc[w] = "done"

\* the two instances leave the rows one instance alone would leave
SameAsSingleRun ==
    BothDone =>
        /\ Range(daily_metrics) = Range(run_once(StoresBefore, local["worker1"]).daily_metrics)
        /\ Range(daily_drift) = Range(run_once(StoresBefore, local["worker1"]).daily_drift)
        /\ Len(daily_metrics) = Len(run_once(StoresBefore, local["worker1"]).daily_metrics)
        /\ Len(daily_drift) = Len(run_once(StoresBefore, local["worker1"]).daily_drift)

\* every key has its one DailyMetric row computed from the events, and its
\* one DailyDrift row holding what compute_daily_drift_all computes from them
RowsOfTheEvents ==
    BothDone =>
        \A k \in Range(_discover_model_keys(DB)) :
            /\ SelectSeq(daily_metrics, LAMBDA m : key_of(m) = k /\ m.day = DriftDay)
                  = <<metrics_row(DB, k, DriftDay, "UTC")>>
            /\ Len(DriftRowsFor(k, DriftDay)) <= 1
            /\ (/\ OfKey(baselines, k) # <<>>
                /\ compute_daily_drift_all(StoresBefore, SessionLocal, k, DriftDay, "UTC", 1,
                                           local["worker1"].overwrite).exc = NoExc)
               => /\ Len(DriftRowsFor(k, DriftDay)) = 1
                  /\ StoredPsi(daily_drift, k, DriftDay)
                        = compute_daily_drift_all(StoresBefore, SessionLocal, k, DriftDay, "UTC",
                                                  1, local["worker1"].overwrite).out[1].psi

\* C25: when two worker instances have run run_once concurrently for the
\* same day, the DailyMetric and DailyDrift stores are those a single
\* instance's run leaves: exactly one DailyMetric row and at most one
\* DailyDrift row per (key, day), holding the values computed from the
\* events, no row missing, whatever the interleaving and the overwrite flag.
C25_TwoWorkersLikeOne == SameAsSingleRun /\ RowsOfTheEvents


-----------------------------------------------------------------------------
(* Sequences of compute_daily_metrics calls, new events arriving between   *)
(* them: a request of api/metrics.py runs on a Session of its own, the     *)
(* worker's loop calls once per key on the Session of its iteration        *)

\* the calls of one behaviour
MaxMetricCalls == 3

InitMetrics ==
    /\ events \in {<<>>, History(K1)}
    /\ baselines = <<>>
    /\ daily_metrics = <<>>
    /\ daily_drift = <<>>
    /\ alerts = <<>>
    /\ sess = [p \in {Api} |-> SessionLocal]
    /\ pc = [p \in {Api} |-> "idle"]
    /\ local = [p \in {Api} |-> [calls |-> 0, overwrite |-> TRUE]]
    /\ ret = [p \in {Api} |-> None]
    /\ log = <<>>

\* the DailyMetric rows of (key, day) in tbl
MetricRowsFor(tbl, key, day) ==
    SelectSeq(tbl, LAMBDA m : key_of(m) = key /\ m.day = day)

\* compute_daily_metrics has done r for key with the overwrite flag
MetricsCalled(key, overwrite, r) ==
    /\ local[Api].calls < MaxMetricCalls
    /\ local' = [local EXCEPT ![Api] = [calls |-> @.calls + 1, overwrite |-> overwrite]]
    /\ daily_metrics' = r.daily_metrics
    /\ sess' = [sess EXCEPT ![Api] = r.sess]
    /\ ret' = [ret EXCEPT ![Api] =
                  Some([key |-> key, overwrite |-> overwrite, exc |-> r.exc, out |-> r.out,
                        before |-> MetricRowsFor(daily_metrics, key, DriftDay)])]
    /\ UNCHANGED <<events, baselines, daily_drift, alerts, pc, log>>

\* api/metrics.py compute, or the first key of a worker iteration: the call
\* runs on a new Session
MetricsRequest ==
    \E key \in Keys, overwrite \in BOOLEAN :
        MetricsCalled(key, overwrite,
            compute_daily_metrics(DB, SessionLocal, key, DriftDay, "UTC", overwrite))

\* worker.py 109-136: the next key of the loop, on the Session and with the
\* overwrite flag of the iteration
MetricsOfNextKey ==
    /\ local[Api].calls > 0
    /\ \E key \in Keys :
          MetricsCalled(key, local[Api].overwrite,
              compute_daily_metrics(DB, sess[Api], key, DriftDay, "UTC", local[Api].overwrite))

\* api/events.py ingest_events: new events of day 1
MetricsNewEvents ==
    /\ Len(events) < MaxLen
    /\ \E e \in DayRuns(K1) \cup DayRuns(K2) : events' = Append(events, e)
    /\ UNCHANGED <<baselines, daily_metrics, daily_drift, alerts, sess, pc, local, ret, log>>

NextMetrics == MetricsRequest \/ MetricsOfNextKey \/ MetricsNewEvents

SpecMetrics == InitMetrics /\ [][NextMetrics]_vars

\* C26: after every compute_daily_metrics call there is at most one
\* DailyMetric row per (project_id, model_id, endpoint, day); a call with
\* overwrite=true succeeds and leaves for its key the one row computed from
\* the events as they are now (the same row when nothing changed, the
\* recomputed one after new events) and the other keys' rows as they were;
\* a call with overwrite=false on an existing row fails and leaves the table
\* unchanged.
C26_OneRowOverwriteIdempotent ==
    [][local'[Api].calls # local[Api].calls =>
          /\ \A k \in Keys : Len(MetricRowsFor(daily_metrics', k, DriftDay)) <= 1
          /\ ret'[Api][1].overwrite =>
                /\ ret'[Api][1].exc = NoExc
                /\ MetricRowsFor(daily_metrics', ret'[Api][1].key, DriftDay)
                      = <<metrics_row(DB, ret'[Api][1].key, DriftDay, "UTC")>>
                /\ \A k \in Keys \ {ret'[Api][1].key} :
                      MetricRowsFor(daily_metrics', k, DriftDay)
                          = MetricRowsFor(daily_metrics, k, DriftDay)
                /\ MetricRowsFor(daily_metrics, ret'[Api][1].key, DriftDay)
                      = <<metrics_row(DB, ret'[Api][1].key, DriftDay, "UTC")>>
                   => Range(daily_metrics') = Range(daily_metrics)
          /\ (/\ ~ret'[Api][1].overwrite
              /\ MetricRowsFor(daily_metrics, ret'[Api][1].key, DriftDay) # <<>>)
             => /\ ret'[Api][1].exc # NoExc
                /\ daily_metrics' = daily_metrics]_vars

\* C26 witness: new events have arrived since K1's row was stored, and the
\* third call, with overwrite=true, has replaced that row by one counting
\* the two events of the day, the row of K2 being kept
C26_Witness ==
    /\ local[Api].calls = MaxMetricCalls
    /\ ret[Api][1].overwrite
    /\ ret[Api][1].key = K1
    /\ ret[Api][1].exc = NoExc
    /\ ret[Api][1].before # <<>>
    /\ ret[Api][1].before[1].n_events = 0
    /\ Len(daily_metrics) = 2
    /\ MetricRowsFor(daily_metrics, K1, DriftDay)[1].n_events = 2
    /\ MetricRowsFor(daily_metrics, K2, DriftDay)[1].n_events = 0


\* C27: a compute_daily_drift or compute_daily_drift_all call that fails (no
\* baseline, no events in the day window, not enough samples) leaves the
\* DailyDrift table exactly as it was, also with overwrite=true.
C27_FailedDriftWritesNothing ==
    [][(local'[Api].calls # local[Api].calls /\ ret'[Api][1].resp.exc # NoExc)
          => daily_drift' = daily_drift]_vars

\* C27 witness: compute_daily_drift_all with overwrite=true has failed for
\* want of events in the day window while a DailyDrift row with entries is
\* stored
C27_Witness ==
    /\ ret[Api] # None
    /\ Last.resp.op = "compute_all"
    /\ Last.req.overwrite
    /\ Last.resp.exc = ValueError
    /\ Contains("No events found", Last.resp.msg)
    /\ daily_drift # <<>>
    /\ DOMAIN StoredPsi(daily_drift, K1, DriftDay) # {}


\* C28: a compute_all invocation with alert=true notifies the webhook only
\* when its create_alert_once returned created=true, so an invocation that
\* finds the alert of (key, day) already stored sends nothing.
C28_SlackOnlyWhenAlertCreated ==
    (ret[Api] # None /\ Last.resp.op = "compute_all"
        /\ Last.fields.slack_alert_sent = Some(TRUE))
       => Last.fields.alert_created = Some(TRUE)


\* the calendar days of zone tz whose window holds the instant t
DaysHolding(t, tz) ==
    {d \in 0..(Max(WindowDays) + 1) :
        _day_range_utc(d, tz)[1] <= t /\ t < _day_range_utc(d, tz)[2]}

\* the number of stored events of the key that only the window of day holds
CountOfDay(key, day, tz) ==
    RunLen(SelectSeq(events, LAMBDA e : key_of(e) = key
                                        /\ DaysHolding(e.timestamp, tz) = {day}))

\* C29: in a fixed zone the windows of consecutive calendar days are
\* contiguous and disjoint (the exclusive end of day D is the inclusive start
\* of day D+1), every stored event's timestamp lies in the window of exactly
\* one day, and the metrics and the drift of a day count exactly the events
\* of that day, also around the day the zone changes its UTC offset.
C29_DayWindowsPartitionTime ==
    /\ \A tz \in TZs, d \in 0..Max(WindowDays) :
          /\ _day_range_utc(d, tz)[1] < _day_range_utc(d, tz)[2]
          /\ _day_range_utc(d, tz)[2] = _day_range_utc(d + 1, tz)[1]
    /\ \A tz \in TZs, i \in DOMAIN events :
          Cardinality(DaysHolding(events[i].timestamp, tz)) = 1
    /\ DayDone => ret[Api][1].n = CountOfDay(K1, ret[Api][1].day, ret[Api][1].tz)

\* C29 witness: the metrics of the day America/Vancouver moves its clocks
\* have counted the event of the last hour of that day and not the event of
\* the first hour of the next day
C29_Witness ==
    /\ DayDone
    /\ ret[Api][1].op = "metrics"
    /\ ret[Api][1].tz = "America/Vancouver"
    /\ ret[Api][1].day = 2
    /\ ret[Api][1].n = 1
    /\ \E i \in DOMAIN events : events[i].timestamp = 78
    /\ \E i \in DOMAIN events : events[i].timestamp = 79


-----------------------------------------------------------------------------
(* The single-feature path and the all-features path over the same stores: *)
(* compute_daily_drift for a feature, then compute_daily_drift_all, for    *)
(* one key, day, time zone and min_samples                                 *)

InitPaths ==
    /\ events \in EventStores(K1)
    /\ baselines \in BaselineTables(K1)
    /\ daily_metrics = <<>>
    /\ daily_drift = <<>>
    /\ alerts = <<>>
    /\ sess = [p \in {Api} |-> SessionLocal]
    /\ pc = [p \in {Api} |-> "idle"]
    /\ local = [p \in {Api} |-> [calls |-> 0]]
    /\ ret = [p \in {Api} |-> None]
    /\ log = <<>>

\* the request req has been served: compute_daily_drift did one, and
\* compute_daily_drift_all did all on the stores it left
DriftBothPaths(req, one, all) ==
    /\ pc[Api] = "idle"
    /\ pc' = [pc EXCEPT ![Api] = "done"]
    /\ daily_drift' = all.daily_drift
    /\ ret' = [ret EXCEPT ![Api] = Some([req |-> req, one |-> one, all |-> all])]
    /\ UNCHANGED <<events, baselines, daily_metrics, alerts, sess, local, log>>

\* the second call, on the DailyDrift rows the first left
DriftAllAfter(req, one) ==
    DriftBothPaths(req, one,
        compute_daily_drift_all([DB EXCEPT !.daily_drift = one.daily_drift], SessionLocal, K1,
                                DriftDay, req.tz, req.min_samples, req.overwrite))

\* drift.py compute_daily_drift, then compute_daily_drift_all
DriftOneThenAll ==
    \E feature \in Features, tz \in TZs, min_samples \in 1..MaxMinSamples,
       overwrite \in BOOLEAN :
        DriftAllAfter(Request(feature, tz, min_samples, overwrite, FALSE, 0),
            compute_daily_drift(DB, SessionLocal, K1, DriftDay, feature, tz, min_samples))

NextPaths == DriftOneThenAll

SpecPaths == InitPaths /\ [][NextPaths]_vars

\* C30: over the same events and baselines, key, day, time zone and
\* min_samples, compute_daily_drift succeeds for a baselined feature f
\* exactly when compute_daily_drift_all succeeds with an entry for f, and the
\* entry {psi, n, type, severity, categories} each returns and stores for f
\* is the same.
C30_SinglePathAgreesWithAllPath ==
    (ret[Api] # None /\ ret[Api][1].req.feature \in Baselined(K1)) =>
        /\ ret[Api][1].one.exc = NoExc
              <=> /\ ret[Api][1].all.exc = NoExc
                  /\ ret[Api][1].req.feature \in DOMAIN ret[Api][1].all.out[1].psi
        /\ ret[Api][1].one.exc = NoExc =>
              /\ ret[Api][1].one.out[1].payload
                    = ret[Api][1].all.out[1].psi[ret[Api][1].req.feature]
              /\ StoredPsi(ret[Api][1].one.daily_drift, K1, DriftDay)[ret[Api][1].req.feature]
                    = StoredPsi(daily_drift, K1, DriftDay)[ret[Api][1].req.feature]

\* C30 witness: both paths have computed the categorical feature g from
\* exactly min_samples strings of the day, while the all-features path also
\* holds an entry for f
C30_Witness ==
    /\ ret[Api] # None
    /\ ret[Api][1].req.feature = "g"
    /\ ret[Api][1].one.exc = NoExc
    /\ ret[Api][1].all.exc = NoExc
    /\ ret[Api][1].one.out[1].payload.type = "categorical"
    /\ ret[Api][1].one.out[1].payload.n = ret[Api][1].req.min_samples
    /\ DOMAIN ret[Api][1].all.out[1].psi = {"f", "g"}

=============================================================================
